---- MODULE Spec2Model ----
(***************************************************************************)
(* Model of core/vm/sqlvm/ast: the DataType encoding, the type nodes and   *)
(* their resolution, the reverse mapping DataType -> TypeNode, the range   *)
(* table and the decimal codec.                                            *)
(*                                                                         *)
(* Every operation is a pure function of its arguments, except             *)
(* decimalDecode, which complements the caller's byte slice in place.  The *)
(* state is therefore the record of the last call (op, args, res) together *)
(* with the byte slice the caller holds (buf) and the record of the encode *)
(* call that produced it (enc).                                            *)
(***************************************************************************)
EXTENDS Integers, Sequences, FiniteSets, TLC

VARIABLES op, args, res, buf, enc

vars == <<op, args, res, buf, enc>>

\* ------------------------------------------------------------------------
\* Bounds of the model
\* ------------------------------------------------------------------------

\* Widths (in bytes) whose range boundaries are among the sampled values.
MaxBytes == 2

\* Largest minor byte sampled densely: byte widths 1..MaxMinor+1 of int/uint
\* and 0..MaxMinor fractional digits of fixed/ufixed; also the largest number
\* of fractional digits of a sampled decimal value.
MaxMinor == 2

\* Largest length of a byte slice handed to DecimalDecode by the caller.
MaxBufLen == 2

\* Decimals handed to DecimalToUint64 have a coefficient up to
\* MaxCoefficient in magnitude and an exponent in -MaxFraction..MaxExp10
\* (10^20 > 2^64).
MaxCoefficient == 40
MaxFraction == 3
MaxExp10 == 20

\* Largest number of IN alternatives, function arguments, and SELECT columns,
\* GROUP BY items and ORDER BY items.
MaxListLen == 2

\* Largest number of SetType calls on one expression node.
MaxSetTypeCalls == 3

\* Type nodes are sampled with Size in 0..MaxNodeSize and FractionalDigits in
\* 0..MaxNodeDigits.
MaxNodeSize == 272
MaxNodeDigits == 82

\* ------------------------------------------------------------------------
\* Machine arithmetic
\* ------------------------------------------------------------------------

RECURSIVE Pow(_, _)
Pow(b, n) == IF n = 0 THEN 1 ELSE b * Pow(b, n - 1)

Abs(x) == IF x < 0 THEN -x ELSE x

\* Conversions to the unsigned 8- and 16-bit types of the code.
U8(x) == x % 256
U16(x) == x % 65536

RECURSIVE BitAnd(_, _)
BitAnd(a, b) ==
    IF a = 0 \/ b = 0 THEN 0
    ELSE (a % 2) * (b % 2) + 2 * BitAnd(a \div 2, b \div 2)

RECURSIVE BitOr(_, _)
BitOr(a, b) ==
    IF a = 0 THEN b
    ELSE IF b = 0 THEN a
    ELSE (IF a % 2 = 1 \/ b % 2 = 1 THEN 1 ELSE 0) + 2 * BitOr(a \div 2, b \div 2)

\* ^x on a byte.
BitNot8(x) == 255 - BitAnd(x, 255)

\* ------------------------------------------------------------------------
\* DataType
\* ------------------------------------------------------------------------

DataTypeMajorPending == 0
DataTypeMajorSpecial == 1
DataTypeMajorBool == 2
DataTypeMajorAddress == 3
DataTypeMajorInt == 4
DataTypeMajorUint == 5
DataTypeMajorFixedBytes == 6
DataTypeMajorDynamicBytes == 7
DataTypeMajorFixed == 16
DataTypeMajorUfixed == 48

DataTypeMinorDontCare == 0
DataTypeMinorSpecialNull == 0
DataTypeMinorSpecialAny == 1
DataTypeMinorSpecialDefault == 2

DataTypePending == BitOr(U16(DataTypeMajorPending * 256), DataTypeMinorDontCare)
DataTypeBad == 65535

\* The sentinel the type nodes return on a validation failure.  Its
\* declaration is not part of the sources at hand; it is the canonical invalid
\* DataType.
DataTypeUnknown == DataTypeBad

DecomposeDataType(t) ==
    [major |-> U8(t \div 256), minor |-> U8(BitAnd(t, 255))]

ComposeDataTypeNoShift(major, minor) ==
    BitOr(U16(major), minor)

ComposeDataType(major, minor) ==
    BitOr(U16(major * 256), minor)

IsFixedRange(d) ==
    d >= DataTypeMajorFixed /\ U8(d - DataTypeMajorFixed) <= 31

IsUfixedRange(d) ==
    d >= DataTypeMajorUfixed /\ U8(d - DataTypeMajorUfixed) <= 31

Majors == 0..255
Minors == 0..255
DataTypes == 0..65535

\* ------------------------------------------------------------------------
\* Specification of the DataType encoding: the caller holds either a
\* (major, minor) pair or a 16-bit DataType, and applies ComposeDataType and
\* DecomposeDataType to what it holds.
\* ------------------------------------------------------------------------

NoBuf == [present |-> FALSE, bs |-> <<>>]
NoEnc == [valid |-> FALSE, dt |-> 0, d |-> [value |-> 0, exp |-> 0]]

InitDataType ==
    /\ op = "init"
    /\ \/ \E major \in Majors, minor \in Minors :
             args = [kind |-> "pair", major |-> major, minor |-> minor]
       \/ \E t \in DataTypes :
             args = [kind |-> "dt", dt |-> t]
    /\ res = [none |-> TRUE]
    /\ buf = NoBuf
    /\ enc = NoEnc

ComposeDataTypeCall ==
    /\ \/ op = "init" /\ args.kind = "pair"
       \/ op = "DecomposeDataType" /\ args.kind = "dt"
    /\ LET in == IF op = "init" THEN args ELSE res
       IN /\ op' = "ComposeDataType"
          /\ args' = [kind |-> "pair", major |-> in.major, minor |-> in.minor]
          /\ res' = [dt |-> ComposeDataType(in.major, in.minor)]
    /\ UNCHANGED <<buf, enc>>

DecomposeDataTypeCall ==
    /\ \/ op = "init" /\ args.kind = "dt"
       \/ op = "ComposeDataType" /\ args.kind = "pair"
    /\ LET t == IF op = "init" THEN args.dt ELSE res.dt
       IN /\ op' = "DecomposeDataType"
          /\ args' = [kind |-> "dt", dt |-> t]
          /\ res' = DecomposeDataType(t)
    /\ UNCHANGED <<buf, enc>>

NextDataType == ComposeDataTypeCall \/ DecomposeDataTypeCall

SpecDataType == InitDataType /\ [][NextDataType]_vars

\* C6: ComposeDataType and DecomposeDataType are exact inverses on all
\* (major, minor) pairs and on all 16-bit DataType values, and DataTypeBad and
\* DataTypePending are distinct values.
ComposeDecomposeInverse ==
    /\ op = "ComposeDataType" =>
          DecomposeDataType(res.dt) = [major |-> args.major, minor |-> args.minor]
    /\ op = "DecomposeDataType" =>
          /\ res.major \in Majors /\ res.minor \in Minors
          /\ ComposeDataType(res.major, res.minor) = args.dt
    /\ DataTypeBad # DataTypePending

ComposeDecomposeInverseWitness ==
    /\ op = "ComposeDataType"
    /\ args.major = 255 /\ args.minor = 255
    /\ res.dt = DataTypeBad

\* ------------------------------------------------------------------------
\* Type nodes
\* ------------------------------------------------------------------------

\* The fields of the type node structs; a variant leaves the fields it does
\* not have at their zero values.
Node(kind, unsigned, size, digits) ==
    [kind |-> kind, Unsigned |-> unsigned, Size |-> size,
     FractionalDigits |-> digits]

NilNode == Node("nil", FALSE, 0, 0)

\* fmt.Sprintf of the diagnostics: the type name, the format and the number
\* substituted for %d (0 when the format has none).
Msg(name, text, n) == [name |-> name, text |-> text, n |-> n]
EmptyMsg == Msg("", "", 0)

GetTypeResult(dt, code, msg) == [dt |-> dt, code |-> code, msg |-> msg]

IntTypeNodeGetTypeStrict(n) ==
    LET isMultiple == n.Size % 8 = 0
        isNotZero == n.Size # 0
        isInRange == n.Size < 256
        name == IF n.Unsigned THEN "uint" ELSE "int"
        code == IF n.Unsigned THEN "ErrorCodeInvalidUintSize"
                ELSE "ErrorCodeInvalidIntSize"
    IN IF ~isMultiple THEN
           GetTypeResult(DataTypeUnknown, code,
                         Msg(name, "%s size %d is not a multiple of 8", n.Size))
       ELSE IF ~isNotZero THEN
           GetTypeResult(DataTypeUnknown, code,
                         Msg(name, "%s size cannot be zero", 0))
       ELSE IF ~isInRange THEN
           GetTypeResult(DataTypeUnknown, code,
                         Msg(name, "%s size %d cannot be larger than 256", n.Size))
       ELSE GetTypeResult(
                ComposeDataType(IF n.Unsigned THEN DataTypeMajorUint
                                ELSE DataTypeMajorInt,
                                U8(n.Size \div 8 - 1)),
                "ErrorCodeNil", EmptyMsg)

IntTypeNodeGetTypeSignedCode(n) ==
    LET isMultiple == n.Size % 8 = 0
        isNotZero == n.Size # 0
        isInRange == n.Size <= 256
        name == IF n.Unsigned THEN "uint" ELSE "int"
        code == "ErrorCodeInvalidIntSize"
    IN IF ~isMultiple THEN
           GetTypeResult(DataTypeUnknown, code,
                         Msg(name, "%s size %d is not a multiple of 8", n.Size))
       ELSE IF ~isNotZero THEN
           GetTypeResult(DataTypeUnknown, code,
                         Msg(name, "%s size cannot be zero", 0))
       ELSE IF ~isInRange THEN
           GetTypeResult(DataTypeUnknown, code,
                         Msg(name, "%s size %d cannot be larger than 256", n.Size))
       ELSE GetTypeResult(
                ComposeDataType(IF n.Unsigned THEN DataTypeMajorUint
                                ELSE DataTypeMajorInt,
                                U8(n.Size \div 8 - 1)),
                "ErrorCodeNil", EmptyMsg)

IntTypeNodeGetType(n) ==
    LET isMultiple == n.Size % 8 = 0
        isNotZero == n.Size # 0
        isInRange == n.Size <= 256
        name == IF n.Unsigned THEN "uint" ELSE "int"
        code == IF n.Unsigned THEN "ErrorCodeInvalidUintSize"
                ELSE "ErrorCodeInvalidIntSize"
    IN IF ~isMultiple \/ ~isNotZero \/ ~isInRange THEN
           IF ~isMultiple THEN
               GetTypeResult(DataTypeUnknown, code,
                             Msg(name, "%s size %d is not a multiple of 8", n.Size))
           ELSE IF ~isNotZero THEN
               GetTypeResult(DataTypeUnknown, code,
                             Msg(name, "%s size cannot be zero", 0))
           ELSE
               GetTypeResult(DataTypeUnknown, code,
                             Msg(name, "%s size %d cannot be larger than 256", n.Size))
       ELSE GetTypeResult(
                ComposeDataType(IF n.Unsigned THEN DataTypeMajorUint
                                ELSE DataTypeMajorInt,
                                U8(n.Size \div 8 - 1)),
                "ErrorCodeNil", EmptyMsg)

FixedTypeNodeGetTypeDigitsFirst(n) ==
    LET sizeIsMultiple == n.Size % 8 = 0
        sizeIsNotZero == n.Size # 0
        sizeIsInRange == n.Size <= 256
        fractionalDigitsInRange == n.FractionalDigits <= 80
        name == IF n.Unsigned THEN "ufixed" ELSE "fixed"
        code == "ErrorCodeInvalidFixedSize"
        digitsCode == IF n.Unsigned THEN "ErrorCodeInvalidUfixedFractionalDigits"
                      ELSE "ErrorCodeInvalidFixedFractionalDigits"
    IN IF ~fractionalDigitsInRange THEN
           GetTypeResult(DataTypeUnknown, digitsCode,
                         Msg(name, "%s fractional digits %d cannot be larger than 80",
                             n.FractionalDigits))
       ELSE IF ~sizeIsMultiple THEN
           GetTypeResult(DataTypeUnknown, code,
                         Msg(name, "%s size %d is not a multiple of 8", n.Size))
       ELSE IF ~sizeIsNotZero THEN
           GetTypeResult(DataTypeUnknown, code,
                         Msg(name, "%s size cannot be zero", 0))
       ELSE IF ~sizeIsInRange THEN
           GetTypeResult(DataTypeUnknown, code,
                         Msg(name, "%s size %d cannot be larger than 256", n.Size))
       ELSE GetTypeResult(
                ComposeDataType(
                    U8((IF n.Unsigned THEN DataTypeMajorUfixed
                        ELSE DataTypeMajorFixed) + U8(n.Size \div 8 - 1)),
                    U8(n.FractionalDigits)),
                "ErrorCodeNil", EmptyMsg)

FixedTypeNodeGetType(n) ==
    LET sizeIsMultiple == n.Size % 8 = 0
        sizeIsNotZero == n.Size # 0
        sizeIsInRange == n.Size <= 256
        fractionalDigitsInRange == n.FractionalDigits <= 80
        name == IF n.Unsigned THEN "ufixed" ELSE "fixed"
        \* Both branches of the code select ErrorCodeInvalidFixedSize.
        code == IF n.Unsigned THEN "ErrorCodeInvalidFixedSize"
                ELSE "ErrorCodeInvalidFixedSize"
        digitsCode == IF n.Unsigned THEN "ErrorCodeInvalidUfixedFractionalDigits"
                      ELSE "ErrorCodeInvalidFixedFractionalDigits"
    IN IF ~sizeIsMultiple \/ ~sizeIsNotZero \/ ~sizeIsInRange
          \/ ~fractionalDigitsInRange THEN
           IF ~sizeIsMultiple THEN
               GetTypeResult(DataTypeUnknown, code,
                             Msg(name, "%s size %d is not a multiple of 8", n.Size))
           ELSE IF ~sizeIsNotZero THEN
               GetTypeResult(DataTypeUnknown, code,
                             Msg(name, "%s size cannot be zero", 0))
           ELSE IF ~sizeIsInRange THEN
               GetTypeResult(DataTypeUnknown, code,
                             Msg(name, "%s size %d cannot be larger than 256", n.Size))
           ELSE
               GetTypeResult(DataTypeUnknown, digitsCode,
                             Msg(name,
                                 "%s fractional digits %d cannot be larger than 80",
                                 n.FractionalDigits))
       ELSE GetTypeResult(
                ComposeDataType(
                    U8((IF n.Unsigned THEN DataTypeMajorUfixed
                        ELSE DataTypeMajorFixed) + U8(n.Size \div 8 - 1)),
                    U8(n.FractionalDigits)),
                "ErrorCodeNil", EmptyMsg)

DynamicBytesTypeNodeGetType(n) ==
    GetTypeResult(ComposeDataType(DataTypeMajorDynamicBytes, DataTypeMinorDontCare),
                  "ErrorCodeNil", EmptyMsg)

FixedBytesTypeNodeGetType(n) ==
    LET isNotZero == n.Size # 0
        isInRange == n.Size <= 32
        code == "ErrorCodeInvalidBytesSize"
    IN IF ~isNotZero \/ ~isInRange THEN
           IF ~isNotZero THEN
               GetTypeResult(DataTypeUnknown, code,
                             Msg("bytes", "bytes size cannot be zero", 0))
           ELSE
               GetTypeResult(DataTypeUnknown, code,
                             Msg("bytes", "bytes size %d cannot be larger than 32",
                                 n.Size))
       ELSE GetTypeResult(ComposeDataType(DataTypeMajorFixedBytes, U8(n.Size - 1)),
                          "ErrorCodeNil", EmptyMsg)

AddressTypeNodeGetType(n) ==
    GetTypeResult(ComposeDataType(DataTypeMajorAddress, DataTypeMinorDontCare),
                  "ErrorCodeNil", EmptyMsg)

BoolTypeNodeGetType(n) ==
    GetTypeResult(ComposeDataType(DataTypeMajorBool, DataTypeMinorDontCare),
                  "ErrorCodeNil", EmptyMsg)

\* TypeNode.GetType: the method of the node's variant.
TypeNodeGetType(n) ==
    CASE n.kind = "IntTypeNode" -> IntTypeNodeGetType(n)
      [] n.kind = "FixedTypeNode" -> FixedTypeNodeGetType(n)
      [] n.kind = "DynamicBytesTypeNode" -> DynamicBytesTypeNodeGetType(n)
      [] n.kind = "FixedBytesTypeNode" -> FixedBytesTypeNodeGetType(n)
      [] n.kind = "AddressTypeNode" -> AddressTypeNodeGetType(n)
      [] n.kind = "BoolTypeNode" -> BoolTypeNodeGetType(n)

\* DataType.GetNode, with the int/uint size computed from the minor without
\* the +1.
GetNodeOffByOne(dt) ==
    LET major == DecomposeDataType(dt).major
        minor == DecomposeDataType(dt).minor
    IN IF major = DataTypeMajorBool THEN Node("BoolTypeNode", FALSE, 0, 0)
       ELSE IF major = DataTypeMajorAddress THEN Node("AddressTypeNode", FALSE, 0, 0)
       ELSE IF major = DataTypeMajorInt /\ minor <= 31 THEN
           Node("IntTypeNode", FALSE, minor * 8, 0)
       ELSE IF major = DataTypeMajorUint /\ minor <= 31 THEN
           Node("IntTypeNode", TRUE, minor * 8, 0)
       ELSE IF major = DataTypeMajorFixedBytes /\ minor <= 31 THEN
           Node("FixedBytesTypeNode", FALSE, minor + 1, 0)
       ELSE IF major = DataTypeMajorDynamicBytes THEN
           Node("DynamicBytesTypeNode", FALSE, 0, 0)
       ELSE IF IsFixedRange(major) /\ minor <= 80 THEN
           Node("FixedTypeNode", FALSE, (U8(major - DataTypeMajorFixed) + 1) * 8, minor)
       ELSE IF IsUfixedRange(major) /\ minor <= 80 THEN
           Node("FixedTypeNode", TRUE, (U8(major - DataTypeMajorUfixed) + 1) * 8, minor)
       ELSE NilNode

\* DataType.GetNode.  The first switch falls through to the second when an
\* int, uint or bytes minor is above 0x1f; no such major is in a fixed band,
\* so the result is nil.
GetNode(dt) ==
    LET major == DecomposeDataType(dt).major
        minor == DecomposeDataType(dt).minor
    IN IF major = DataTypeMajorBool THEN Node("BoolTypeNode", FALSE, 0, 0)
       ELSE IF major = DataTypeMajorAddress THEN Node("AddressTypeNode", FALSE, 0, 0)
       ELSE IF major = DataTypeMajorInt /\ minor <= 31 THEN
           Node("IntTypeNode", FALSE, (minor + 1) * 8, 0)
       ELSE IF major = DataTypeMajorUint /\ minor <= 31 THEN
           Node("IntTypeNode", TRUE, (minor + 1) * 8, 0)
       ELSE IF major = DataTypeMajorFixedBytes /\ minor <= 31 THEN
           Node("FixedBytesTypeNode", FALSE, minor + 1, 0)
       ELSE IF major = DataTypeMajorDynamicBytes THEN
           Node("DynamicBytesTypeNode", FALSE, 0, 0)
       ELSE IF IsFixedRange(major) /\ minor <= 80 THEN
           Node("FixedTypeNode", FALSE, (U8(major - DataTypeMajorFixed) + 1) * 8, minor)
       ELSE IF IsUfixedRange(major) /\ minor <= 80 THEN
           Node("FixedTypeNode", TRUE, (U8(major - DataTypeMajorUfixed) + 1) * 8, minor)
       ELSE NilNode

\* ------------------------------------------------------------------------
\* Specification of type resolution: the analysis pass holds a type node and
\* resolves it, or holds a DataType and asks for its node; it may feed each
\* result to the other operation.
\* ------------------------------------------------------------------------

NodeSizes == 0..MaxNodeSize
NodeDigits == 0..MaxNodeDigits

TypeNodes ==
    {Node("IntTypeNode", u, sz, 0) : u \in BOOLEAN, sz \in NodeSizes}
    \cup {Node("FixedBytesTypeNode", FALSE, sz, 0) : sz \in NodeSizes}
    \cup {Node("FixedTypeNode", u.a, u.b, fd) :
             u \in [a : BOOLEAN, b : NodeSizes], fd \in NodeDigits}
    \cup {Node("DynamicBytesTypeNode", FALSE, 0, 0),
          Node("AddressTypeNode", FALSE, 0, 0),
          Node("BoolTypeNode", FALSE, 0, 0)}

InitTypeNode ==
    /\ op = "init"
    /\ \/ \E n \in TypeNodes : args = [kind |-> "node", node |-> n, dt |-> 0]
       \/ \E t \in DataTypes : args = [kind |-> "dt", node |-> NilNode, dt |-> t]
    /\ res = [none |-> TRUE]
    /\ buf = NoBuf
    /\ enc = NoEnc

\* The node a GetType call is made on: the one held at the start, or the one
\* GetNode returned.
HeldNode == IF op = "init" THEN args.node ELSE res.node

HoldsNode(kind) ==
    /\ \/ op = "init" /\ args.kind = "node"
       \/ op = "GetNode" /\ res.node # NilNode
    /\ HeldNode.kind = kind

IntTypeNodeGetTypeCall ==
    /\ HoldsNode("IntTypeNode")
    /\ op' = "GetType"
    /\ args' = [kind |-> "node", node |-> HeldNode, dt |-> 0]
    /\ res' = IntTypeNodeGetType(HeldNode)
    /\ UNCHANGED <<buf, enc>>

FixedTypeNodeGetTypeCall ==
    /\ HoldsNode("FixedTypeNode")
    /\ op' = "GetType"
    /\ args' = [kind |-> "node", node |-> HeldNode, dt |-> 0]
    /\ res' = FixedTypeNodeGetType(HeldNode)
    /\ UNCHANGED <<buf, enc>>

DynamicBytesTypeNodeGetTypeCall ==
    /\ HoldsNode("DynamicBytesTypeNode")
    /\ op' = "GetType"
    /\ args' = [kind |-> "node", node |-> HeldNode, dt |-> 0]
    /\ res' = DynamicBytesTypeNodeGetType(HeldNode)
    /\ UNCHANGED <<buf, enc>>

FixedBytesTypeNodeGetTypeCall ==
    /\ HoldsNode("FixedBytesTypeNode")
    /\ op' = "GetType"
    /\ args' = [kind |-> "node", node |-> HeldNode, dt |-> 0]
    /\ res' = FixedBytesTypeNodeGetType(HeldNode)
    /\ UNCHANGED <<buf, enc>>

AddressTypeNodeGetTypeCall ==
    /\ HoldsNode("AddressTypeNode")
    /\ op' = "GetType"
    /\ args' = [kind |-> "node", node |-> HeldNode, dt |-> 0]
    /\ res' = AddressTypeNodeGetType(HeldNode)
    /\ UNCHANGED <<buf, enc>>

BoolTypeNodeGetTypeCall ==
    /\ HoldsNode("BoolTypeNode")
    /\ op' = "GetType"
    /\ args' = [kind |-> "node", node |-> HeldNode, dt |-> 0]
    /\ res' = BoolTypeNodeGetType(HeldNode)
    /\ UNCHANGED <<buf, enc>>

\* dt.GetNode() on the DataType held at the start or on the one a successful
\* GetType returned; args.node remembers the node that DataType came from.
GetNodeCall ==
    /\ \/ op = "init" /\ args.kind = "dt"
       \/ op = "GetType" /\ res.code = "ErrorCodeNil"
    /\ LET t == IF op = "init" THEN args.dt ELSE res.dt
           from == IF op = "init" THEN NilNode ELSE args.node
       IN /\ op' = "GetNode"
          /\ args' = [kind |-> "dt", node |-> from, dt |-> t]
          /\ res' = [node |-> GetNode(t)]
    /\ UNCHANGED <<buf, enc>>

NextTypeNode ==
    \/ IntTypeNodeGetTypeCall
    \/ FixedTypeNodeGetTypeCall
    \/ DynamicBytesTypeNodeGetTypeCall
    \/ FixedBytesTypeNodeGetTypeCall
    \/ AddressTypeNodeGetTypeCall
    \/ BoolTypeNodeGetTypeCall
    \/ GetNodeCall

SpecTypeNode == InitTypeNode /\ [][NextTypeNode]_vars

IntSizeIsValid(size) == size % 8 = 0 /\ 8 <= size /\ size <= 256

\* C7: IntTypeNode.GetType succeeds iff Size is a multiple of 8 in 8..256 and
\* then returns Compose(Int or Uint, Size/8 - 1); FixedBytesTypeNode.GetType
\* succeeds iff Size is in 1..32 and then returns Compose(FixedBytes, Size - 1);
\* a success carries ErrorCodeNil and the empty message, every other case the
\* invalid sentinel DataType and a non-Nil error code.
SizeValidation ==
    op = "GetType" =>
        LET n == args.node
        IN /\ n.kind = "IntTypeNode" =>
                IF IntSizeIsValid(n.Size)
                THEN /\ res.dt = ComposeDataType(
                                     IF n.Unsigned THEN DataTypeMajorUint
                                     ELSE DataTypeMajorInt, n.Size \div 8 - 1)
                     /\ res.code = "ErrorCodeNil"
                     /\ res.msg = EmptyMsg
                ELSE /\ res.dt = DataTypeUnknown
                     /\ res.code # "ErrorCodeNil"
           /\ n.kind = "FixedBytesTypeNode" =>
                IF 1 <= n.Size /\ n.Size <= 32
                THEN /\ res.dt = ComposeDataType(DataTypeMajorFixedBytes, n.Size - 1)
                     /\ res.code = "ErrorCodeNil"
                     /\ res.msg = EmptyMsg
                ELSE /\ res.dt = DataTypeUnknown
                     /\ res.code # "ErrorCodeNil"

\* uint256 resolves to (Uint, 31).
SizeValidationWitness ==
    /\ op = "GetType"
    /\ args.node = Node("IntTypeNode", TRUE, 256, 0)
    /\ res.code = "ErrorCodeNil"
    /\ res.dt = 5 * 256 + 31

SizeTexts ==
    {"%s size %d is not a multiple of 8", "%s size cannot be zero",
     "%s size %d cannot be larger than 256"}

FractionalDigitsCodes ==
    {"ErrorCodeInvalidFixedFractionalDigits",
     "ErrorCodeInvalidUfixedFractionalDigits"}

\* C8: FixedTypeNode.GetType succeeds iff Size is a multiple of 8 in 8..256 and
\* FractionalDigits <= 80, returning Compose(band base + (Size/8 - 1),
\* FractionalDigits); an invalid size is the failure reported whatever the
\* fractional digits are, and the fractional-digits failure, with the error
\* code of the node's signedness, is reported only when the size is valid.
FixedValidation ==
    (op = "GetType" /\ args.node.kind = "FixedTypeNode") =>
        LET n == args.node
            sizeOK == IntSizeIsValid(n.Size)
            digitsOK == n.FractionalDigits <= 80
        IN /\ res.code = "ErrorCodeNil" <=> (sizeOK /\ digitsOK)
           /\ (sizeOK /\ digitsOK) =>
                /\ res.dt = ComposeDataType(
                                (IF n.Unsigned THEN DataTypeMajorUfixed
                                 ELSE DataTypeMajorFixed) + (n.Size \div 8 - 1),
                                n.FractionalDigits)
                /\ res.msg = EmptyMsg
           /\ ~sizeOK =>
                /\ res.dt = DataTypeUnknown
                /\ res.code \notin FractionalDigitsCodes
                /\ res.msg.text \in SizeTexts
           /\ (sizeOK /\ ~digitsOK) =>
                /\ res.dt = DataTypeUnknown
                /\ res.code = IF n.Unsigned
                              THEN "ErrorCodeInvalidUfixedFractionalDigits"
                              ELSE "ErrorCodeInvalidFixedFractionalDigits"
                /\ res.msg.text = "%s fractional digits %d cannot be larger than 80"
                /\ res.msg.n = n.FractionalDigits

\* fixed0x81: both the size and the fractional digits are invalid, and the
\* size failure is reported.
FixedValidationWitness ==
    /\ op = "GetType"
    /\ args.node = Node("FixedTypeNode", FALSE, 0, 81)
    /\ res.code = "ErrorCodeInvalidFixedSize"
    /\ res.msg.text = "%s size cannot be zero"

\* The violation of an int/uint size, in the order the code tests them.
IntSizeViolation(size) ==
    IF size % 8 # 0 THEN "not a multiple of 8"
    ELSE IF size = 0 THEN "zero"
    ELSE IF size > 256 THEN "larger than 256"
    ELSE "none"

\* C9 as stated: the three violations of an int{N}/uint{N} size are each
\* reported with an error code of their own, and the code or the message tells
\* signed from unsigned.
IntSizeViolationCodesDistinct ==
    (op = "GetType" /\ args.node.kind = "IntTypeNode"
       /\ res.code # "ErrorCodeNil") =>
        LET n == args.node
        IN /\ \A sz \in NodeSizes :
                (IntSizeViolation(sz) \notin {"none", IntSizeViolation(n.Size)}) =>
                    IntTypeNodeGetType(Node("IntTypeNode", n.Unsigned, sz, 0)).code
                        # res.code
           /\ LET other == IntTypeNodeGetType(
                               Node("IntTypeNode", ~n.Unsigned, n.Size, 0))
              IN other.code # res.code \/ other.msg # res.msg

\* C9, amended: the three violations are each reported with a message of their
\* own, all under the one error code of the node's signedness
\* (ErrorCodeInvalidIntSize or ErrorCodeInvalidUintSize); the code and the type
\* name in the message tell signed from unsigned.
IntSizeViolationMessagesDistinct ==
    (op = "GetType" /\ args.node.kind = "IntTypeNode"
       /\ res.code # "ErrorCodeNil") =>
        LET n == args.node
        IN /\ res.code = IF n.Unsigned THEN "ErrorCodeInvalidUintSize"
                         ELSE "ErrorCodeInvalidIntSize"
           /\ res.msg.name = IF n.Unsigned THEN "uint" ELSE "int"
           /\ \A sz \in NodeSizes :
                LET r2 == IntTypeNodeGetType(Node("IntTypeNode", n.Unsigned, sz, 0))
                IN (IntSizeViolation(sz) \notin {"none", IntSizeViolation(n.Size)}) =>
                       /\ r2.msg.text # res.msg.text
                       /\ r2.code = res.code
           /\ LET other == IntTypeNodeGetType(
                               Node("IntTypeNode", ~n.Unsigned, n.Size, 0))
              IN other.code # res.code /\ other.msg.name # res.msg.name

\* uint264 fails with the uint size code and the too-large message.
IntSizeViolationWitness ==
    /\ op = "GetType"
    /\ args.node = Node("IntTypeNode", TRUE, 264, 0)
    /\ res.code = "ErrorCodeInvalidUintSize"
    /\ res.msg = Msg("uint", "%s size %d cannot be larger than 256", 264)

\* C10: for every type node whose GetType succeeds with DataType dt,
\* dt.GetNode() is non-nil, has the same variant, signedness, size and
\* fractional digits as the node, and resolves back to dt; dt is neither
\* Pending nor Bad.  (GetNode being a function, two valid nodes that differ
\* cannot then resolve to the same DataType.)
ReverseMappingInverse ==
    /\ (op = "GetType" /\ res.code = "ErrorCodeNil") =>
          /\ GetNode(res.dt) = args.node
          /\ res.dt \notin {DataTypePending, DataTypeBad}
    /\ (op = "GetNode" /\ args.node # NilNode) =>
          /\ res.node # NilNode
          /\ res.node.kind = args.node.kind
          /\ res.node.Unsigned = args.node.Unsigned
          /\ res.node.Size = args.node.Size
          /\ res.node.FractionalDigits = args.node.FractionalDigits
          /\ TypeNodeGetType(res.node) =
                 GetTypeResult(args.dt, "ErrorCodeNil", EmptyMsg)

\* ufixed64x2 resolves to (Ufixed + 7, 2), whose node is ufixed64x2 again.
ReverseMappingInverseWitness ==
    /\ op = "GetNode"
    /\ args.node = Node("FixedTypeNode", TRUE, 64, 2)
    /\ args.dt = (48 + 7) * 256 + 2
    /\ res.node = Node("FixedTypeNode", TRUE, 64, 2)

\* ------------------------------------------------------------------------
\* DataType.Size
\* ------------------------------------------------------------------------

\* common.HashLength and common.AddressLength.
HashLength == 32
AddressLength == 20

\* The uint8 the method returns, or the panic of its default branch.
Size(dt) ==
    LET major == DecomposeDataType(dt).major
        minor == DecomposeDataType(dt).minor
    IN IF IsFixedRange(major) THEN
           [panic |-> FALSE, n |-> U8(U8(major - DataTypeMajorFixed) + 1)]
       ELSE IF IsUfixedRange(major) THEN
           [panic |-> FALSE, n |-> U8(U8(major - DataTypeMajorUfixed) + 1)]
       ELSE IF major = DataTypeMajorBool THEN [panic |-> FALSE, n |-> 1]
       ELSE IF major = DataTypeMajorDynamicBytes THEN
           [panic |-> FALSE, n |-> U8(HashLength)]
       ELSE IF major = DataTypeMajorAddress THEN
           [panic |-> FALSE, n |-> U8(AddressLength)]
       ELSE IF major \in {DataTypeMajorInt, DataTypeMajorUint,
                          DataTypeMajorFixedBytes} THEN
           [panic |-> FALSE, n |-> U8(minor + 1)]
       ELSE [panic |-> TRUE, n |-> 0]

\* ------------------------------------------------------------------------
\* decimal.Decimal: value * 10^exp, value a big.Int.  The model holds values
\* below 2^31 in magnitude.
\* ------------------------------------------------------------------------

Dec(value, exp) == [value |-> value, exp |-> exp]

\* decimal.Zero
DecimalZero == Dec(0, 1)

\* big.Int.Quo: division truncated toward zero.
Quo(a, b) == IF a >= 0 THEN a \div b ELSE -((-a) \div b)

DecSign(d) == IF d.value > 0 THEN 1 ELSE IF d.value < 0 THEN -1 ELSE 0

DecShift(d, shift) == Dec(d.value, d.exp + shift)

DecRescale(d, exp) ==
    IF d.exp = exp THEN d
    ELSE IF exp > d.exp THEN Dec(Quo(d.value, Pow(10, exp - d.exp)), exp)
    ELSE Dec(d.value * Pow(10, d.exp - exp), exp)

\* Decimal.Equal: numeric equality, whatever the exponents.  a * 10^k = b is
\* decided by dividing b, so that no product leaves the model's integers.
DecEqual(x, y) ==
    LET hi == IF x.exp >= y.exp THEN x ELSE y
        lo == IF x.exp >= y.exp THEN y ELSE x
        k == hi.exp - lo.exp
    IN IF k = 0 THEN hi.value = lo.value
       ELSE IF hi.value = 0 \/ lo.value = 0 THEN hi.value = lo.value
       ELSE IF k > 9 THEN FALSE
       ELSE lo.value % Pow(10, k) = 0 /\ lo.value \div Pow(10, k) = hi.value

\* The largest integer <= d and the smallest integer >= d.
DecFloor(d) ==
    IF d.exp >= 0 THEN d.value * Pow(10, d.exp) ELSE d.value \div Pow(10, -d.exp)
DecCeil(d) == -DecFloor(Dec(-d.value, d.exp))

DecIsInteger(d) == d.exp >= 0 \/ d.value % Pow(10, -d.exp) = 0

\* ------------------------------------------------------------------------
\* The range table
\* ------------------------------------------------------------------------

\* A bound of the table, sign * 2^bits - minus, as the code builds it with
\* Lsh, Sub and Neg.  Widths reach 256 bits, so the bound is kept in this form
\* and compared with the values the model holds.
Bound(sign, bits, minus) == [sign |-> sign, bits |-> bits, minus |-> minus]

BoundValue(b) == b.sign * Pow(2, b.bits) - b.minus

\* d <= b and d >= b
DecLeqBound(d, b) ==
    IF b.bits > 30 THEN b.sign > 0 ELSE DecCeil(d) <= BoundValue(b)
DecGeqBound(d, b) ==
    IF b.bits > 30 THEN b.sign < 0 ELSE DecFloor(d) >= BoundValue(b)

decimalMinMaxPair(min, max) == [Min |-> min, Max |-> max]

\* decimalMinMaxMap with the int bounds shifted by (i+1)*8, the shift of the
\* uint bounds.
decimalMinMaxMapIntFullWidth ==
    LET bool ==
            ComposeDataType(DataTypeMajorBool, DataTypeMinorDontCare)
                :> decimalMinMaxPair(Bound(0, 0, 0), Bound(1, 0, 0))
        address ==
            ComposeDataType(DataTypeMajorAddress, DataTypeMinorDontCare)
                :> decimalMinMaxPair(Bound(0, 0, 0), Bound(1, AddressLength * 8, 1))
        uint ==
            [dt \in {ComposeDataType(DataTypeMajorUint, i) : i \in 0..31} |->
                decimalMinMaxPair(Bound(0, 0, 0),
                    Bound(1, (DecomposeDataType(dt).minor + 1) * 8, 1))]
        bytes ==
            [dt \in {ComposeDataType(DataTypeMajorFixedBytes, i) : i \in 0..31} |->
                decimalMinMaxPair(Bound(0, 0, 0),
                    Bound(1, (DecomposeDataType(dt).minor + 1) * 8, 1))]
        int ==
            [dt \in {ComposeDataType(DataTypeMajorInt, i) : i \in 0..31} |->
                decimalMinMaxPair(
                    Bound(-1, (DecomposeDataType(dt).minor + 1) * 8, 0),
                    Bound(1, (DecomposeDataType(dt).minor + 1) * 8, 1))]
    IN int @@ bytes @@ uint @@ address @@ bool

decimalMinMaxMap ==
    LET bool ==
            ComposeDataType(DataTypeMajorBool, DataTypeMinorDontCare)
                :> decimalMinMaxPair(Bound(0, 0, 0), Bound(1, 0, 0))
        address ==
            ComposeDataType(DataTypeMajorAddress, DataTypeMinorDontCare)
                :> decimalMinMaxPair(Bound(0, 0, 0), Bound(1, AddressLength * 8, 1))
        uint ==
            [dt \in {ComposeDataType(DataTypeMajorUint, i) : i \in 0..31} |->
                decimalMinMaxPair(Bound(0, 0, 0),
                    Bound(1, (DecomposeDataType(dt).minor + 1) * 8, 1))]
        bytes ==
            [dt \in {ComposeDataType(DataTypeMajorFixedBytes, i) : i \in 0..31} |->
                decimalMinMaxPair(Bound(0, 0, 0),
                    Bound(1, (DecomposeDataType(dt).minor + 1) * 8, 1))]
        int ==
            [dt \in {ComposeDataType(DataTypeMajorInt, i) : i \in 0..31} |->
                decimalMinMaxPair(
                    Bound(-1, (DecomposeDataType(dt).minor + 1) * 8 - 1, 0),
                    Bound(1, (DecomposeDataType(dt).minor + 1) * 8 - 1, 1))]
    IN int @@ bytes @@ uint @@ address @@ bool

\* The zero value of decimalMinMaxPair, returned for an absent key.
NoMinMaxPair == decimalMinMaxPair(Bound(0, 0, 0), Bound(0, 0, 0))

GetMinMax(dt) ==
    IF dt \in DOMAIN decimalMinMaxMap
    THEN [Min |-> decimalMinMaxMap[dt].Min, Max |-> decimalMinMaxMap[dt].Max,
          ok |-> TRUE]
    ELSE [Min |-> NoMinMaxPair.Min, Max |-> NoMinMaxPair.Max, ok |-> FALSE]

\* ------------------------------------------------------------------------
\* The decimal codec
\* ------------------------------------------------------------------------

Zeros(n) == [i \in 1..n |-> 0]

\* big.Int.Bytes: the big-endian bytes of |x|, without leading zeros.
RECURSIVE BigBytes(_)
BigBytes(x) ==
    IF x = 0 THEN <<>>
    ELSE Append(BigBytes(Abs(x) \div 256), Abs(x) % 256)

\* The bytes of bs after its leading zeros.
Significant(bs) ==
    LET nz == {i \in 1..Len(bs) : bs[i] # 0}
    IN IF nz = {} THEN <<>>
       ELSE SubSeq(bs, CHOOSE i \in nz : \A j \in nz : i <= j, Len(bs))

RECURSIVE BigEndian(_)
BigEndian(bs) ==
    IF Len(bs) = 0 THEN 0
    ELSE BigEndian(SubSeq(bs, 1, Len(bs) - 1)) * 256 + bs[Len(bs)]

\* big.Int.SetBytes: the unsigned big-endian value of bs.
SetBytes(bs) == BigEndian(Significant(bs))

\* for idx := range bs { bs[idx] = ^bs[idx] }
Complement(bs) == [i \in 1..Len(bs) |-> BitNot8(bs[i])]

decimalToBig(d) == DecRescale(d, 0).value

\* decimalEncode without the b.Add(b, bigIntOne) of the negative branch.
decimalEncodeNoAddOne(size, d) ==
    LET ret == Zeros(size)
        s == DecSign(d)
        b == decimalToBig(d)
        pos == BigBytes(b)
    IN IF s = 0 THEN [panic |-> FALSE, bs |-> ret]
       ELSE IF Len(pos) > size THEN [panic |-> TRUE, bs |-> <<>>]
       ELSE IF s > 0 THEN [panic |-> FALSE, bs |-> Zeros(size - Len(pos)) \o pos]
       ELSE [panic |-> FALSE, bs |-> Complement(Zeros(size - Len(pos)) \o pos)]

\* decimalEncode: the byte slice returned, or the run-time panic of
\* ret[size-len(bs):] when the magnitude has more than size bytes.
decimalEncode(size, d) ==
    LET ret == Zeros(size)
        s == DecSign(d)
        b == decimalToBig(d)
        pos == BigBytes(b)
        neg == BigBytes(b + 1)
    IN IF s = 0 THEN [panic |-> FALSE, bs |-> ret]
       ELSE IF s > 0 THEN
           IF Len(pos) > size THEN [panic |-> TRUE, bs |-> <<>>]
           ELSE [panic |-> FALSE, bs |-> Zeros(size - Len(pos)) \o pos]
       ELSE
           IF Len(neg) > size THEN [panic |-> TRUE, bs |-> <<>>]
           ELSE [panic |-> FALSE,
                 bs |-> Complement(Zeros(size - Len(neg)) \o neg)]

\* decimalDecode without the b.Add(b, bigIntOne) of the negative branch.
decimalDecodeNoAddOne(signed, bs) ==
    IF signed /\ Len(bs) = 0 THEN [panic |-> TRUE, d |-> DecimalZero, bs |-> bs]
    ELSE LET neg == signed /\ BitAnd(bs[1], 128) # 0
             after == IF neg THEN Complement(bs) ELSE bs
             b == SetBytes(after)
         IN [panic |-> FALSE,
             d |-> Dec(IF neg THEN -b ELSE b, 0),
             bs |-> after]

\* decimalDecode: the decimal returned and the caller's slice after the call
\* (complemented in place when the sign bit is set), or the index panic of
\* bs[0] on an empty slice.
decimalDecode(signed, bs) ==
    IF signed /\ Len(bs) = 0 THEN [panic |-> TRUE, d |-> DecimalZero, bs |-> bs]
    ELSE LET neg == signed /\ BitAnd(bs[1], 128) # 0
             after == IF neg THEN Complement(bs) ELSE bs
             b == SetBytes(after)
         IN [panic |-> FALSE,
             d |-> Dec(IF neg THEN -(b + 1) ELSE b, 0),
             bs |-> after]

EncodeResult(r) ==
    IF r.panic THEN [st |-> "panic", bs |-> <<>>, err |-> "nil"]
    ELSE [st |-> "ok", bs |-> r.bs, err |-> "nil"]

\* DecimalEncode without the case of the ufixed band.
DecimalEncodeNoUfixed(dt, d) ==
    LET major == DecomposeDataType(dt).major
        minor == DecomposeDataType(dt).minor
    IN IF major \in {DataTypeMajorInt, DataTypeMajorUint} THEN
           EncodeResult(decimalEncode(minor + 1, d))
       ELSE IF IsFixedRange(major) THEN
           EncodeResult(decimalEncode(U8(major - DataTypeMajorFixed) + 1,
                                      DecShift(d, minor)))
       ELSE [st |-> "error", bs |-> <<>>, err |-> "ErrorCodeDecimalEncode"]

\* DecimalEncode: st is "ok" with the bytes and a nil error, "error" with a nil
\* slice and the error code, or "panic".
DecimalEncode(dt, d) ==
    LET major == DecomposeDataType(dt).major
        minor == DecomposeDataType(dt).minor
    IN IF major \in {DataTypeMajorInt, DataTypeMajorUint} THEN
           EncodeResult(decimalEncode(minor + 1, d))
       ELSE IF IsFixedRange(major) THEN
           EncodeResult(decimalEncode(U8(major - DataTypeMajorFixed) + 1,
                                      DecShift(d, minor)))
       ELSE IF IsUfixedRange(major) THEN
           EncodeResult(decimalEncode(U8(major - DataTypeMajorUfixed) + 1,
                                      DecShift(d, minor)))
       ELSE [st |-> "error", bs |-> <<>>, err |-> "ErrorCodeDecimalEncode"]

DecodeResult(r, shift) ==
    IF r.panic THEN [st |-> "panic", d |-> DecimalZero, err |-> "nil", bs |-> r.bs]
    ELSE [st |-> "ok", d |-> DecShift(r.d, shift), err |-> "nil", bs |-> r.bs]

\* DecimalDecode without the Shift of the fixed-point cases.
DecimalDecodeNoShift(dt, b) ==
    LET major == DecomposeDataType(dt).major
        minor == DecomposeDataType(dt).minor
    IN IF major = DataTypeMajorInt \/ IsFixedRange(major) THEN
           DecodeResult(decimalDecode(TRUE, b), 0)
       ELSE IF major = DataTypeMajorUint \/ IsUfixedRange(major) THEN
           DecodeResult(decimalDecode(FALSE, b), 0)
       ELSE [st |-> "error", d |-> DecimalZero, err |-> "ErrorCodeDecimalDecode",
             bs |-> b]

\* DecimalDecode: st, the decimal, the error and the caller's slice after the
\* call.
DecimalDecode(dt, b) ==
    LET major == DecomposeDataType(dt).major
        minor == DecomposeDataType(dt).minor
    IN IF major = DataTypeMajorInt THEN DecodeResult(decimalDecode(TRUE, b), 0)
       ELSE IF major = DataTypeMajorUint THEN
           DecodeResult(decimalDecode(FALSE, b), 0)
       ELSE IF IsFixedRange(major) THEN
           DecodeResult(decimalDecode(TRUE, b), -minor)
       ELSE IF IsUfixedRange(major) THEN
           DecodeResult(decimalDecode(FALSE, b), -minor)
       ELSE [st |-> "error", d |-> DecimalZero, err |-> "ErrorCodeDecimalDecode",
             bs |-> b]

\* ------------------------------------------------------------------------
\* Specification of the codec: the storage layer holds a DataType and either a
\* decimal to encode or a byte slice to decode.  It encodes, and decodes the
\* slice it holds with the same DataType, any number of times.
\* ------------------------------------------------------------------------

\* Majors up to the one after the ufixed band, with the minors 0..MaxMinor.
TypesDense ==
    {ComposeDataType(major, minor) :
        major \in 0..(DataTypeMajorUfixed + 33), minor \in 0..MaxMinor}

\* int and uint at and beyond the widest valid size, and at the largest minor.
TypesWide ==
    {ComposeDataType(major, minor) :
        major \in {DataTypeMajorInt, DataTypeMajorUint},
        minor \in {31, 32, 254, 255}}

\* Every major, at the boundary of the fractional digits and at the largest
\* minor.
TypesSparse ==
    {ComposeDataType(major, minor) : major \in Majors, minor \in {80, 81, 255}}

\* Values at the boundaries of the signed and unsigned ranges of the widths
\* 1..MaxBytes, and small values.
Coefficients ==
    (-3..3) \cup {5, 12, 37, 100, 123, -123}
    \cup {s * (Pow(2, k) + e) :
             s \in {-1, 1}, e \in {-1, 0, 1},
             k \in {8 * w - 1 : w \in 1..MaxBytes} \cup {8 * w : w \in 1..MaxBytes}}

Decimals == {Dec(c, e) : c \in Coefficients, e \in (-MaxMinor)..0}

PlainDecimals == {Dec(0, 0), Dec(1, 0), Dec(-1, 0), Dec(123, -2)}

ByteSamples == {0, 1, 127, 128, 255}

Buffers == UNION {[1..n -> ByteSamples] : n \in 0..MaxBufLen}

PlainBuffers == {<<>>, <<255>>, <<0, 123>>}

\* The power of ten decimalToBig multiplies by under dt, and whether the
\* product stays within the integers of the model.
RescaleDigits(dt, d) ==
    LET major == DecomposeDataType(dt).major
    IN IF IsFixedRange(major) \/ IsUfixedRange(major)
       THEN d.exp + DecomposeDataType(dt).minor
       ELSE d.exp

Representable(dt, d) ==
    LET k == RescaleDigits(dt, d)
    IN IF d.value = 0 \/ k <= 0 THEN TRUE
       ELSE IF k > 9 THEN FALSE
       ELSE Abs(d.value) <= Pow(2, 30) \div Pow(10, k)

\* Whether the integer decimalDecode builds from bs under dt stays within the
\* integers of the model (below 2^30 in magnitude).
Decodable(dt, bs) ==
    LET major == DecomposeDataType(dt).major
        signed == major = DataTypeMajorInt \/ IsFixedRange(major)
        neg == signed /\ Len(bs) > 0 /\ bs[1] >= 128
        sig == Significant(IF neg THEN Complement(bs) ELSE bs)
    IN IF Len(sig) <= 3 THEN TRUE
       ELSE IF Len(sig) > 4 THEN FALSE
       ELSE sig[1] < 64

InitCodec ==
    /\ op = "init"
    /\ res = [none |-> TRUE]
    /\ enc = NoEnc
    /\ \/ /\ \E dt \in TypesDense \cup TypesWide, d \in Decimals :
                /\ Representable(dt, d)
                /\ args = [kind |-> "encode", dt |-> dt, d |-> d]
          /\ buf = NoBuf
       \/ /\ \E dt \in TypesSparse, d \in PlainDecimals :
                /\ Representable(dt, d)
                /\ args = [kind |-> "encode", dt |-> dt, d |-> d]
          /\ buf = NoBuf
       \/ \E dt \in TypesDense \cup TypesWide, bs \in Buffers :
             /\ args = [kind |-> "decode", dt |-> dt]
             /\ buf = [present |-> TRUE, bs |-> bs]
       \/ \E dt \in TypesSparse, bs \in PlainBuffers :
             /\ args = [kind |-> "decode", dt |-> dt]
             /\ buf = [present |-> TRUE, bs |-> bs]

\* bs, err := DecimalEncode(dt, d); the caller keeps the slice returned.
DecimalEncodeCall ==
    /\ op = "init" /\ args.kind = "encode"
    /\ LET r == DecimalEncode(args.dt, args.d)
       IN /\ op' = "DecimalEncode"
          /\ args' = args
          /\ res' = r
          /\ buf' = IF r.st = "ok" THEN [present |-> TRUE, bs |-> r.bs] ELSE NoBuf
          /\ enc' = IF r.st = "ok"
                    THEN [valid |-> TRUE, dt |-> args.dt, d |-> args.d]
                    ELSE NoEnc

\* d, err := DecimalDecode(dt, buf).  args records the slice as it was passed
\* and, in enc, the encode call it is the untouched result of (if any).
DecimalDecodeCall ==
    /\ buf.present
    /\ \/ op = "init" /\ args.kind = "decode"
       \/ op = "DecimalEncode" /\ res.st = "ok"
       \/ op = "DecimalDecode" /\ res.st = "ok"
    /\ Decodable(args.dt, buf.bs)
    /\ LET r == DecimalDecode(args.dt, buf.bs)
       IN /\ op' = "DecimalDecode"
          /\ args' = [kind |-> "decode", dt |-> args.dt, bs |-> buf.bs, enc |-> enc]
          /\ res' = [st |-> r.st, d |-> r.d, err |-> r.err]
          /\ buf' = [present |-> TRUE, bs |-> r.bs]
          /\ enc' = IF r.bs = buf.bs THEN enc ELSE NoEnc

NextCodec == DecimalEncodeCall \/ DecimalDecodeCall

SpecCodec == InitCodec /\ [][NextCodec]_vars

\* ------------------------------------------------------------------------
\* Properties of the codec
\* ------------------------------------------------------------------------

IsNumericMajor(major) ==
    \/ major \in {DataTypeMajorInt, DataTypeMajorUint}
    \/ IsFixedRange(major)
    \/ IsUfixedRange(major)

IsBandMajor(major) == IsFixedRange(major) \/ IsUfixedRange(major)

IsSignedMajor(major) == major = DataTypeMajorInt \/ IsFixedRange(major)

\* Byte width and fractional digits of a numeric DataType, as the type system
\* defines them: minor + 1 bytes for int/uint, (major - band base) + 1 bytes
\* and minor digits for fixed/ufixed.
WidthOf(dt) ==
    LET major == DecomposeDataType(dt).major
    IN IF IsFixedRange(major) THEN major - DataTypeMajorFixed + 1
       ELSE IF IsUfixedRange(major) THEN major - DataTypeMajorUfixed + 1
       ELSE DecomposeDataType(dt).minor + 1

DigitsOf(dt) ==
    IF IsBandMajor(DecomposeDataType(dt).major)
    THEN DecomposeDataType(dt).minor ELSE 0

\* d * 10^DigitsOf(dt): whether it is an integer, and its integer part
\* (truncated toward zero).
ScaledIsInteger(dt, d) ==
    LET k == d.exp + DigitsOf(dt)
    IN IF d.value = 0 \/ k >= 0 THEN TRUE ELSE d.value % Pow(10, -k) = 0

ScaledTrunc(dt, d) ==
    LET k == d.exp + DigitsOf(dt)
    IN IF d.value = 0 THEN 0
       ELSE IF k >= 0 THEN d.value * Pow(10, k)
       ELSE Quo(d.value, Pow(10, -k))

\* Whether d * 10^DigitsOf(dt) lies in the range of w bytes.
ScaledInRange(dt, d, w, signed) ==
    LET k == d.exp + DigitsOf(dt)
        sd == IF d.value = 0 THEN Dec(0, 0) ELSE Dec(d.value, k)
    IN IF signed
       THEN 8 * w - 1 > 30
            \/ /\ DecFloor(sd) >= -Pow(2, 8 * w - 1)
               /\ DecCeil(sd) <= Pow(2, 8 * w - 1) - 1
       ELSE /\ d.value >= 0
            /\ 8 * w > 30 \/ DecCeil(sd) <= Pow(2, 8 * w) - 1

\* The w big-endian bytes of v modulo 2^(8w): the two's-complement
\* representation of v when v is in range, the wrapped value otherwise.
\* (Byte i is floor(v / 256^(w-i)) mod 256; beyond the fourth byte from the
\* right that is the sign extension of a value the model holds.)
TwosComplement(v, w) ==
    [i \in 1..w |->
        IF w - i > 3 THEN (IF v < 0 THEN 255 ELSE 0)
        ELSE (v \div Pow(256, w - i)) % 256]

InTableRange(dt, d) ==
    /\ GetMinMax(dt).ok
    /\ DecGeqBound(d, GetMinMax(dt).Min)
    /\ DecLeqBound(d, GetMinMax(dt).Max)

FixedPointCase(dt, d) ==
    /\ IsBandMajor(DecomposeDataType(dt).major)
    /\ ScaledIsInteger(dt, d)
    /\ ScaledInRange(dt, d, WidthOf(dt), IsFixedRange(DecomposeDataType(dt).major))

\* C2: for every DataType in the Fixed or Ufixed band with byte width W and N
\* fractional digits, and every value with at most N fractional digits whose
\* scaled integer v * 10^N fits W bytes (signed for Fixed, unsigned for
\* Ufixed), DecimalEncode returns the W-byte encoding of v * 10^N and
\* DecimalDecode of those bytes returns v.
FixedPointRoundTrip ==
    /\ (op = "DecimalEncode" /\ FixedPointCase(args.dt, args.d)) =>
          /\ res.st = "ok"
          /\ res.bs = TwosComplement(ScaledTrunc(args.dt, args.d), WidthOf(args.dt))
    /\ (op = "DecimalDecode" /\ args.enc.valid
          /\ FixedPointCase(args.dt, args.enc.d)) =>
          /\ res.st = "ok"
          /\ DecEqual(res.d, args.enc.d)

\* ufixed64x2, 1.23 -> [0,0,0,0,0,0,0,123] -> 1.23.
FixedPointRoundTripWitness ==
    /\ op = "DecimalDecode"
    /\ args.enc.valid
    /\ args.dt = (48 + 7) * 256 + 2
    /\ args.enc.d = Dec(123, -2)
    /\ args.bs = <<0, 0, 0, 0, 0, 0, 0, 123>>
    /\ res.d = Dec(123, -2)

\* C3: for every DataType whose major is Int or Uint, or in the Fixed or Ufixed
\* band after scaling, and every integer value in the type's range,
\* DecimalEncode returns exactly Size(dataType) bytes, the big-endian
\* two's-complement representation of the value; zero gives all-zero bytes.
EncodeSizeBytesTwosComplement ==
    (op = "DecimalEncode"
       /\ IsNumericMajor(DecomposeDataType(args.dt).major)
       /\ ScaledIsInteger(args.dt, args.d)
       /\ ScaledInRange(args.dt, args.d, WidthOf(args.dt),
                        IsSignedMajor(DecomposeDataType(args.dt).major))) =>
        /\ res.st = "ok"
        /\ ~Size(args.dt).panic
        /\ Len(res.bs) = Size(args.dt).n
        /\ res.bs = TwosComplement(ScaledTrunc(args.dt, args.d), Size(args.dt).n)
        /\ args.d.value = 0 => res.bs = Zeros(Size(args.dt).n)

\* int with minor 255, 0: DecimalEncode returns int(minor) + 1 = 256 bytes,
\* Size returns uint8(minor + 1) = 0.
EncodeSizeMismatch ==
    /\ op = "DecimalEncode"
    /\ args.dt = ComposeDataType(DataTypeMajorInt, 255)
    /\ args.d = Dec(0, 0)
    /\ res.st = "ok"
    /\ Len(res.bs) = 256
    /\ Size(args.dt).n = 0

\* C4: for every Int/Uint/Fixed/Ufixed DataType and every value outside the
\* type's range, DecimalEncode returns, with no error and no abort,
\* Size(dataType) bytes holding the wrapped value.
EncodeWrapsOutOfRange ==
    (op = "DecimalEncode"
       /\ IsNumericMajor(DecomposeDataType(args.dt).major)
       /\ ~ScaledInRange(args.dt, args.d, WidthOf(args.dt),
                         IsSignedMajor(DecomposeDataType(args.dt).major))) =>
        /\ res.st = "ok"
        /\ res.err = "nil"
        /\ Len(res.bs) = Size(args.dt).n
        /\ res.bs = TwosComplement(ScaledTrunc(args.dt, args.d), WidthOf(args.dt))

\* uint8, 256: the magnitude has two bytes, ret[size-len(bs):] is ret[-1:].
EncodePanicsOnMagnitude ==
    /\ op = "DecimalEncode"
    /\ args.dt = ComposeDataType(DataTypeMajorUint, 0)
    /\ args.d = Dec(256, 0)
    /\ res.st = "panic"

\* C5: DecimalEncode and DecimalDecode return their error code, and no usable
\* value, exactly when the major is neither Int nor Uint nor in the Fixed or
\* Ufixed band; for the other majors they return no error; they do not panic
\* on a DataType they have no case for.
CodecErrorsExactlyOnNonNumeric ==
    /\ op = "DecimalEncode" =>
          /\ res.st = "error" <=> ~IsNumericMajor(DecomposeDataType(args.dt).major)
          /\ res.st = "error" =>
                res.err = "ErrorCodeDecimalEncode" /\ res.bs = <<>>
          /\ res.st = "ok" => res.err = "nil"
    /\ op = "DecimalDecode" =>
          /\ res.st = "error" <=> ~IsNumericMajor(DecomposeDataType(args.dt).major)
          /\ res.st = "error" =>
                res.err = "ErrorCodeDecimalDecode" /\ res.d = DecimalZero
          /\ res.st = "ok" => res.err = "nil"

\* DecimalDecode under DataTypeBad returns the decode error.
CodecErrorsWitness ==
    /\ op = "DecimalDecode"
    /\ args.dt = DataTypeBad
    /\ res.st = "error"
    /\ res.err = "ErrorCodeDecimalDecode"

\* ------------------------------------------------------------------------
\* Specification of the sizing and range lookups: the storage layer holds a
\* DataType and asks for its Size or for its GetMinMax.
\* ------------------------------------------------------------------------

InitRange ==
    /\ op = "init"
    /\ \E t \in DataTypes : args = [kind |-> "lookup", dt |-> t]
    /\ res = [none |-> TRUE]
    /\ buf = NoBuf
    /\ enc = NoEnc

\* n := dt.Size(), or its panic.
SizeCall ==
    /\ op = "init" /\ args.kind = "lookup"
    /\ op' = "Size"
    /\ args' = args
    /\ res' = Size(args.dt)
    /\ UNCHANGED <<buf, enc>>

\* min, max, ok := dt.GetMinMax()
GetMinMaxCall ==
    /\ op = "init" /\ args.kind = "lookup"
    /\ op' = "GetMinMax"
    /\ args' = args
    /\ res' = GetMinMax(args.dt)
    /\ UNCHANGED <<buf, enc>>

NextRange == SizeCall \/ GetMinMaxCall

SpecRange == InitRange /\ [][NextRange]_vars

\* C11: Size returns 1 for major Bool, the hash width for DynamicBytes, the
\* address width for Address, minor + 1 for every DataType with major Int,
\* Uint or FixedBytes (every minor 0..255), and (major - band base) + 1 for
\* every major of the Fixed or Ufixed band; for every other major it panics.
SizeOverAllDataTypes ==
    op = "Size" =>
        LET major == DecomposeDataType(args.dt).major
            minor == DecomposeDataType(args.dt).minor
        IN IF IsFixedRange(major)
           THEN ~res.panic /\ res.n = major - DataTypeMajorFixed + 1
           ELSE IF IsUfixedRange(major)
           THEN ~res.panic /\ res.n = major - DataTypeMajorUfixed + 1
           ELSE IF major = DataTypeMajorBool THEN ~res.panic /\ res.n = 1
           ELSE IF major = DataTypeMajorDynamicBytes
           THEN ~res.panic /\ res.n = HashLength
           ELSE IF major = DataTypeMajorAddress
           THEN ~res.panic /\ res.n = AddressLength
           ELSE IF major \in {DataTypeMajorInt, DataTypeMajorUint,
                              DataTypeMajorFixedBytes}
           THEN ~res.panic /\ res.n = minor + 1
           ELSE res.panic

\* uint with minor 255: Size returns uint8(255 + 1) = 0, not 256.
SizeWrapsAtLargestMinor ==
    /\ op = "Size"
    /\ args.dt = ComposeDataType(DataTypeMajorUint, 255)
    /\ ~res.panic
    /\ res.n = 0

\* Whether two bounds of the table are the same number.
BoundSame(a, b) ==
    IF a.bits <= 30 /\ b.bits <= 30 THEN BoundValue(a) = BoundValue(b)
    ELSE a = b

\* The DataTypes the type nodes bool, address, int{N}, uint{N} and bytes{N}
\* resolve to.
HasRange(dt) ==
    \/ dt = ComposeDataType(DataTypeMajorBool, DataTypeMinorDontCare)
    \/ dt = ComposeDataType(DataTypeMajorAddress, DataTypeMinorDontCare)
    \/ /\ DecomposeDataType(dt).major \in
             {DataTypeMajorInt, DataTypeMajorUint, DataTypeMajorFixedBytes}
       /\ DecomposeDataType(dt).minor <= 31

\* C12: GetMinMax reports found = true exactly for bool, address and
\* int{N}/uint{N}/bytes{N} with minor 0..31, with the bounds bool [0, 1],
\* address [0, 2^(8*addressBytes) - 1], uint/bytes [0, 2^(8*Size) - 1],
\* int [-2^(8*Size-1), 2^(8*Size-1) - 1]; for every other DataType it reports
\* found = false.
RangeTableMatchesSize ==
    op = "GetMinMax" =>
        LET dt == args.dt
            major == DecomposeDataType(dt).major
            w == Size(dt).n
        IN /\ res.ok <=> HasRange(dt)
           /\ res.ok =>
                /\ ~Size(dt).panic
                /\ major = DataTypeMajorBool =>
                      /\ BoundSame(res.Min, Bound(0, 0, 0))
                      /\ BoundSame(res.Max, Bound(1, 0, 0))
                /\ major = DataTypeMajorAddress =>
                      /\ BoundSame(res.Min, Bound(0, 0, 0))
                      /\ BoundSame(res.Max, Bound(1, 8 * AddressLength, 1))
                      /\ w = AddressLength
                /\ major \in {DataTypeMajorUint, DataTypeMajorFixedBytes} =>
                      /\ BoundSame(res.Min, Bound(0, 0, 0))
                      /\ BoundSame(res.Max, Bound(1, 8 * w, 1))
                /\ major = DataTypeMajorInt =>
                      /\ BoundSame(res.Min, Bound(-1, 8 * w - 1, 0))
                      /\ BoundSame(res.Max, Bound(1, 8 * w - 1, 1))

\* int256: [-2^255, 2^255 - 1].
RangeTableMatchesSizeWitness ==
    /\ op = "GetMinMax"
    /\ args.dt = ComposeDataType(DataTypeMajorInt, 31)
    /\ res.ok
    /\ res.Min = Bound(-1, 255, 0)
    /\ res.Max = Bound(1, 255, 1)

\* ------------------------------------------------------------------------
\* DecimalToUint64.  The coefficient of a rescaled decimal may exceed 2^64;
\* such a big.Int is held as its magnitude, big-endian bytes without leading
\* zeros (what big.Int.Bytes returns).
\* ------------------------------------------------------------------------

\* bs * k + carry on big-endian magnitudes, k and carry small.
RECURSIVE BigMulSmall(_, _, _)
BigMulSmall(bs, k, carry) ==
    IF Len(bs) = 0 THEN BigBytes(carry)
    ELSE LET p == bs[Len(bs)] * k + carry
         IN Append(BigMulSmall(SubSeq(bs, 1, Len(bs) - 1), k, p \div 256),
                   p % 256)

RECURSIVE BigTimesPow10(_, _)
BigTimesPow10(bs, e) ==
    IF e = 0 THEN Significant(bs)
    ELSE BigTimesPow10(BigMulSmall(bs, 10, 0), e - 1)

\* decimalToBig on a positive decimal: the magnitude of d.Rescale(0).
decimalToBigMagnitude(d) ==
    IF d.exp >= 0 THEN BigTimesPow10(BigBytes(d.value), d.exp)
    ELSE BigBytes(Quo(d.value, Pow(10, -d.exp)))

\* big.Int.Uint64: the low 64 bits of the magnitude.
Uint64(bs) ==
    Significant(IF Len(bs) <= 8 THEN bs ELSE SubSeq(bs, Len(bs) - 7, Len(bs)))

\* DecimalToUint64 without the test of the sign.
DecimalToUint64NoSignTest(d) ==
    IF DecSign(d) = 0 THEN [n |-> <<>>, err |-> "nil"]
    ELSE [n |-> Uint64(decimalToBigMagnitude(Dec(Abs(d.value), d.exp))),
          err |-> "nil"]

\* DecimalToUint64: the uint64 returned, as its big-endian magnitude, and the
\* error.
DecimalToUint64(d) ==
    LET s == DecSign(d)
    IN IF s = 0 THEN [n |-> <<>>, err |-> "nil"]
       ELSE IF s < 0 THEN [n |-> <<>>, err |-> "ErrorCodeNegDecimalToUint64"]
       ELSE [n |-> Uint64(decimalToBigMagnitude(d)), err |-> "nil"]

Uint64Decimals ==
    {Dec(c, e) : c \in (-MaxCoefficient)..MaxCoefficient, e \in (-MaxFraction)..MaxExp10}

InitUint64 ==
    /\ op = "init"
    /\ \E d \in Uint64Decimals : args = [kind |-> "uint64", d |-> d]
    /\ res = [none |-> TRUE]
    /\ buf = NoBuf
    /\ enc = NoEnc

\* n, err := DecimalToUint64(d)
DecimalToUint64Call ==
    /\ op = "init" /\ args.kind = "uint64"
    /\ op' = "DecimalToUint64"
    /\ args' = args
    /\ res' = DecimalToUint64(args.d)
    /\ UNCHANGED <<buf, enc>>

NextUint64 == DecimalToUint64Call

SpecUint64 == InitUint64 /\ [][NextUint64]_vars

\* floor(d) of a non-negative decimal, as a big-endian magnitude.
FloorMagnitude(d) ==
    IF d.value = 0 THEN <<>>
    ELSE IF d.exp >= 0 THEN BigTimesPow10(BigBytes(d.value), d.exp)
    ELSE BigBytes(d.value \div Pow(10, -d.exp))

\* C13: DecimalToUint64 returns the negative-value error for every negative
\* value, 0 with no error for zero, and for every positive value, with no
\* error, floor(value).
DecimalToUint64IsFloor ==
    op = "DecimalToUint64" =>
        /\ args.d.value < 0 => res.err = "ErrorCodeNegDecimalToUint64"
        /\ args.d.value = 0 => res.err = "nil" /\ res.n = <<>>
        /\ args.d.value > 0 =>
              res.err = "nil" /\ res.n = FloorMagnitude(args.d)

\* 10^20 = 0x05 6BC75E2D63100000: the uint64 returned is 0x6BC75E2D63100000.
DecimalToUint64Overflows ==
    /\ op = "DecimalToUint64"
    /\ args.d = Dec(1, 20)
    /\ res.err = "nil"
    /\ res.n = <<107, 199, 94, 45, 99, 16, 0, 0>>
    /\ FloorMagnitude(args.d) = <<5>> \o res.n

\* ------------------------------------------------------------------------
\* BoolValue: SQL three-valued logic on a uint8
\* ------------------------------------------------------------------------

BoolValueTrue == 1
BoolValueFalse == 2
BoolValueUnknown == 3

BoolValues == 0..255

\* Valid with the comparison v-1 <= 3.
ValidUpToThree(v) == U8(v - 1) <= 3

\* return v-1 < 3, in uint8 arithmetic.
Valid(v) == U8(v - 1) < 3

\* The arrays are indexed 0..2 by v-1; an index outside them panics.
boolValueStringMap ==
    (BoolValueTrue - 1 :> "TRUE") @@ (BoolValueFalse - 1 :> "FALSE")
        @@ (BoolValueUnknown - 1 :> "UNKNOWN")

String(v) ==
    IF U8(v - 1) \in DOMAIN boolValueStringMap
    THEN [panic |-> FALSE, s |-> boolValueStringMap[U8(v - 1)]]
    ELSE [panic |-> TRUE, s |-> ""]

boolValueNullBoolMap ==
    (BoolValueTrue - 1 :> [Valid |-> TRUE, Bool |-> TRUE])
        @@ (BoolValueFalse - 1 :> [Valid |-> TRUE, Bool |-> FALSE])
        @@ (BoolValueUnknown - 1 :> [Valid |-> FALSE, Bool |-> FALSE])

NullBool(v) ==
    IF U8(v - 1) \in DOMAIN boolValueNullBoolMap
    THEN [panic |-> FALSE, nb |-> boolValueNullBoolMap[U8(v - 1)]]
    ELSE [panic |-> TRUE, nb |-> [Valid |-> FALSE, Bool |-> FALSE]]

boolValueAndTruthTable ==
    (BoolValueTrue - 1 :>
        ((BoolValueTrue - 1 :> BoolValueTrue)
            @@ (BoolValueFalse - 1 :> BoolValueFalse)
            @@ (BoolValueUnknown - 1 :> BoolValueUnknown)))
    @@ (BoolValueFalse - 1 :>
        ((BoolValueTrue - 1 :> BoolValueFalse)
            @@ (BoolValueFalse - 1 :> BoolValueFalse)
            @@ (BoolValueUnknown - 1 :> BoolValueFalse)))
    @@ (BoolValueUnknown - 1 :>
        ((BoolValueTrue - 1 :> BoolValueUnknown)
            @@ (BoolValueFalse - 1 :> BoolValueFalse)
            @@ (BoolValueUnknown - 1 :> BoolValueUnknown)))

\* Result of indexing a [3][3]BoolValue with [v-1][v2-1].
Index2(table, v, v2) ==
    IF U8(v - 1) \in DOMAIN table /\ U8(v2 - 1) \in DOMAIN table[U8(v - 1)]
    THEN [panic |-> FALSE, v |-> table[U8(v - 1)][U8(v2 - 1)]]
    ELSE [panic |-> TRUE, v |-> 0]

And(v, v2) == Index2(boolValueAndTruthTable, v, v2)

\* boolValueOrTruthTable with Unknown OR False = False.
boolValueOrTruthTableFalseWins ==
    (BoolValueTrue - 1 :>
        ((BoolValueTrue - 1 :> BoolValueTrue)
            @@ (BoolValueFalse - 1 :> BoolValueTrue)
            @@ (BoolValueUnknown - 1 :> BoolValueTrue)))
    @@ (BoolValueFalse - 1 :>
        ((BoolValueTrue - 1 :> BoolValueTrue)
            @@ (BoolValueFalse - 1 :> BoolValueFalse)
            @@ (BoolValueUnknown - 1 :> BoolValueUnknown)))
    @@ (BoolValueUnknown - 1 :>
        ((BoolValueTrue - 1 :> BoolValueTrue)
            @@ (BoolValueFalse - 1 :> BoolValueFalse)
            @@ (BoolValueUnknown - 1 :> BoolValueUnknown)))

boolValueOrTruthTable ==
    (BoolValueTrue - 1 :>
        ((BoolValueTrue - 1 :> BoolValueTrue)
            @@ (BoolValueFalse - 1 :> BoolValueTrue)
            @@ (BoolValueUnknown - 1 :> BoolValueTrue)))
    @@ (BoolValueFalse - 1 :>
        ((BoolValueTrue - 1 :> BoolValueTrue)
            @@ (BoolValueFalse - 1 :> BoolValueFalse)
            @@ (BoolValueUnknown - 1 :> BoolValueUnknown)))
    @@ (BoolValueUnknown - 1 :>
        ((BoolValueTrue - 1 :> BoolValueTrue)
            @@ (BoolValueFalse - 1 :> BoolValueUnknown)
            @@ (BoolValueUnknown - 1 :> BoolValueUnknown)))

Or(v, v2) == Index2(boolValueOrTruthTable, v, v2)

boolValueNotTruthTable ==
    (BoolValueTrue - 1 :> BoolValueFalse) @@ (BoolValueFalse - 1 :> BoolValueTrue)
        @@ (BoolValueUnknown - 1 :> BoolValueUnknown)

Not(v) ==
    IF U8(v - 1) \in DOMAIN boolValueNotTruthTable
    THEN [panic |-> FALSE, v |-> boolValueNotTruthTable[U8(v - 1)]]
    ELSE [panic |-> TRUE, v |-> 0]

\* ------------------------------------------------------------------------
\* Specification of BoolValue: the evaluator holds one or two BoolValues of
\* any bit pattern and applies the methods; Not is applied again to its own
\* result.
\* ------------------------------------------------------------------------

\* Number of consecutive applications of Not to a value.
MaxNotCalls == 2

InitBool ==
    /\ op = "init"
    /\ \/ \E v \in BoolValues :
             args = [kind |-> "unary", v |-> v, first |-> v, calls |-> 0]
       \/ \E v \in BoolValues, v2 \in BoolValues :
             args = [kind |-> "binary", v |-> v, v2 |-> v2]
    /\ res = [none |-> TRUE]
    /\ buf = NoBuf
    /\ enc = NoEnc

ValidCall ==
    /\ op = "init" /\ args.kind = "unary"
    /\ op' = "Valid"
    /\ res' = [panic |-> FALSE, ok |-> Valid(args.v)]
    /\ UNCHANGED <<args, buf, enc>>

StringCall ==
    /\ op = "init" /\ args.kind = "unary"
    /\ op' = "String"
    /\ res' = String(args.v)
    /\ UNCHANGED <<args, buf, enc>>

NullBoolCall ==
    /\ op = "init" /\ args.kind = "unary"
    /\ op' = "NullBool"
    /\ res' = NullBool(args.v)
    /\ UNCHANGED <<args, buf, enc>>

AndCall ==
    /\ op = "init" /\ args.kind = "binary"
    /\ op' = "And"
    /\ res' = And(args.v, args.v2)
    /\ UNCHANGED <<args, buf, enc>>

OrCall ==
    /\ op = "init" /\ args.kind = "binary"
    /\ op' = "Or"
    /\ res' = Or(args.v, args.v2)
    /\ UNCHANGED <<args, buf, enc>>

\* r := v.Not(), on the value held or on the result of the previous Not.
NotCall ==
    /\ \/ op = "init" /\ args.kind = "unary"
       \/ op = "Not" /\ ~res.panic /\ args.calls < MaxNotCalls
    /\ LET v == IF op = "init" THEN args.v ELSE res.v
       IN /\ op' = "Not"
          /\ args' = [kind |-> "unary", v |-> v, first |-> args.first,
                      calls |-> args.calls + 1]
          /\ res' = Not(v)
    /\ UNCHANGED <<buf, enc>>

NextBool ==
    ValidCall \/ StringCall \/ NullBoolCall \/ AndCall \/ OrCall \/ NotCall

SpecBool == InitBool /\ [][NextBool]_vars

ThreeValues == {BoolValueTrue, BoolValueFalse, BoolValueUnknown}

\* C14: for all 9 ordered pairs of {True, False, Unknown}, And and Or return
\* the SQL truth-table entries (False dominates And, True dominates Or,
\* otherwise Unknown propagates); Not maps True to False, False to True and
\* Unknown to Unknown; every result is one of the three values; Not(Not(v)) = v
\* for the three values.
ThreeValuedLogic ==
    /\ (op = "And" /\ args.v \in ThreeValues /\ args.v2 \in ThreeValues) =>
          /\ ~res.panic
          /\ res.v = IF BoolValueFalse \in {args.v, args.v2} THEN BoolValueFalse
                     ELSE IF BoolValueUnknown \in {args.v, args.v2}
                     THEN BoolValueUnknown
                     ELSE BoolValueTrue
    /\ (op = "Or" /\ args.v \in ThreeValues /\ args.v2 \in ThreeValues) =>
          /\ ~res.panic
          /\ res.v = IF BoolValueTrue \in {args.v, args.v2} THEN BoolValueTrue
                     ELSE IF BoolValueUnknown \in {args.v, args.v2}
                     THEN BoolValueUnknown
                     ELSE BoolValueFalse
    /\ (op = "Not" /\ args.v \in ThreeValues) =>
          /\ ~res.panic
          /\ args.v = BoolValueTrue => res.v = BoolValueFalse
          /\ args.v = BoolValueFalse => res.v = BoolValueTrue
          /\ args.v = BoolValueUnknown => res.v = BoolValueUnknown
          /\ args.calls = 2 => res.v = args.first
    /\ (op \in {"And", "Or", "Not"} /\ ~res.panic) => res.v \in ThreeValues

\* Unknown OR False = Unknown.
ThreeValuedLogicWitness ==
    /\ op = "Or"
    /\ args.v = BoolValueUnknown
    /\ args.v2 = BoolValueFalse
    /\ res = [panic |-> FALSE, v |-> BoolValueUnknown]

\* C15: over all 256 values, Valid is true exactly for True, False and
\* Unknown; And, Or, Not, String and NullBool return no result for an operand
\* that is the zero value or any other invalid value; for the valid values
\* String gives TRUE/FALSE/UNKNOWN and NullBool gives (valid, true),
\* (valid, false), (invalid).
BoolValueValidity ==
    /\ op = "Valid" => (res.ok <=> args.v \in ThreeValues)
    /\ op \in {"And", "Or"} =>
          (res.panic <=> ~(args.v \in ThreeValues /\ args.v2 \in ThreeValues))
    /\ op \in {"Not", "String", "NullBool"} =>
          (res.panic <=> args.v \notin ThreeValues)
    /\ (op = "String" /\ args.v \in ThreeValues) =>
          res.s = CASE args.v = BoolValueTrue -> "TRUE"
                    [] args.v = BoolValueFalse -> "FALSE"
                    [] args.v = BoolValueUnknown -> "UNKNOWN"
    /\ (op = "NullBool" /\ args.v \in ThreeValues) =>
          /\ res.nb.Valid <=> args.v # BoolValueUnknown
          /\ res.nb.Bool <=> args.v = BoolValueTrue

\* The zero value: Valid is false and And panics on it.
BoolValueValidityWitness ==
    /\ op = "And"
    /\ args.v = 0
    /\ args.v2 = BoolValueTrue
    /\ res.panic
    /\ ~Valid(args.v)

\* ------------------------------------------------------------------------
\* Expression and statement nodes.  A node is a record of its variant (kind)
\* and the fields of the struct that refer to other nodes; Nil is the nil
\* pointer or interface.
\* ------------------------------------------------------------------------

Nil == [kind |-> "nil"]

Leaf(kind) == [kind |-> kind]
Unary(kind, target) == [kind |-> kind, Target |-> target]
Binary(kind, object, subject) ==
    [kind |-> kind, Object |-> object, Subject |-> subject]
Like(object, subject, escape) ==
    [kind |-> "LikeOperatorNode", Object |-> object, Subject |-> subject,
     Escape |-> escape]
Cast(source, target) ==
    [kind |-> "CastOperatorNode", SourceExpr |-> source, TargetType |-> target]
In(left, right) == [kind |-> "InOperatorNode", Left |-> left, Right |-> right]
Function(name, fargs) ==
    [kind |-> "FunctionOperatorNode", Name |-> name, Args |-> fargs]

ValueKinds ==
    {"BoolValueNode", "IntegerValueNode", "DecimalValueNode", "BytesValueNode",
     "DefaultValueNode", "NullValueNode"}

LeafKinds == ValueKinds \cup {"IdentifierNode", "AnyValueNode"}

UnaryKinds ==
    {"PosOperatorNode", "NegOperatorNode", "NotOperatorNode", "ParenOperatorNode"}

\* The variants that take GetChildren and IsConstant from BinaryOperatorNode.
BinaryKinds ==
    {"AndOperatorNode", "OrOperatorNode", "GreaterOrEqualOperatorNode",
     "LessOrEqualOperatorNode", "NotEqualOperatorNode", "EqualOperatorNode",
     "GreaterOperatorNode", "LessOperatorNode", "ConcatOperatorNode",
     "AddOperatorNode", "SubOperatorNode", "MulOperatorNode",
     "DivOperatorNode", "ModOperatorNode", "IsOperatorNode"}

\* IsConstant, dispatched on the variant as the ExprNode interface does.
RECURSIVE IsConstant(_)

UnaryOperatorNodeIsConstant(n) == IsConstant(n.Target)

BinaryOperatorNodeIsConstant(n) ==
    IsConstant(n.Object) /\ IsConstant(n.Subject)

\* LikeOperatorNode.IsConstant without the test of Escape.
LikeOperatorNodeIsConstantNoEscape(n) ==
    IF ~IsConstant(n.Object) THEN FALSE
    ELSE IF ~IsConstant(n.Subject) THEN FALSE
    ELSE TRUE

LikeOperatorNodeIsConstant(n) ==
    IF ~IsConstant(n.Object) THEN FALSE
    ELSE IF ~IsConstant(n.Subject) THEN FALSE
    ELSE IF n.Escape # Nil /\ ~IsConstant(n.Escape) THEN FALSE
    ELSE TRUE

CastOperatorNodeIsConstant(n) == IsConstant(n.SourceExpr)

InOperatorNodeIsConstant(n) ==
    IF ~IsConstant(n.Left) THEN FALSE
    ELSE \A i \in 1..Len(n.Right) : IsConstant(n.Right[i])

FunctionOperatorNodeIsConstant(n) == FALSE

IsConstant(n) ==
    CASE n.kind \in ValueKinds -> TRUE
      [] n.kind \in {"IdentifierNode", "AnyValueNode"} -> FALSE
      [] n.kind \in UnaryKinds -> UnaryOperatorNodeIsConstant(n)
      [] n.kind \in BinaryKinds -> BinaryOperatorNodeIsConstant(n)
      [] n.kind = "LikeOperatorNode" -> LikeOperatorNodeIsConstant(n)
      [] n.kind = "CastOperatorNode" -> CastOperatorNodeIsConstant(n)
      [] n.kind = "InOperatorNode" -> InOperatorNodeIsConstant(n)
      [] n.kind = "FunctionOperatorNode" -> FunctionOperatorNodeIsConstant(n)

\* nodes := make([]Node, size); idx := 0
Make(size) == [nodes |-> [i \in 1..size |-> Nil], idx |-> 0]

\* nodes[idx] = x; idx++
Put(st, x) ==
    [nodes |-> [st.nodes EXCEPT ![st.idx + 1] = x], idx |-> st.idx + 1]

\* for i := 0; i < len(xs); i, idx = i+1, idx+1 { nodes[idx] = xs[i] }
RECURSIVE PutAll(_, _)
PutAll(st, xs) ==
    IF Len(xs) = 0 THEN st ELSE PutAll(Put(st, Head(xs)), Tail(xs))

PutIfPresent(st, x) == IF x # Nil THEN Put(st, x) ELSE st

Present(x) == IF x # Nil THEN 1 ELSE 0

LikeOperatorNodeGetChildren(n) ==
    LET size == 2 + Present(n.Escape)
    IN PutIfPresent(Put(Put(Make(size), n.Object), n.Subject), n.Escape).nodes

\* SelectStmtNode.GetChildren with Offset stored before Limit.
SelectStmtNodeGetChildrenOffsetFirst(n) ==
    LET size == Len(n.Column) + Len(n.Group) + Len(n.Order) + Present(n.Table)
                + Present(n.Where) + Present(n.Limit) + Present(n.Offset)
        s1 == PutAll(Make(size), n.Column)
        s2 == PutIfPresent(s1, n.Table)
        s3 == PutIfPresent(s2, n.Where)
        s4 == PutAll(s3, n.Group)
        s5 == PutAll(s4, n.Order)
        s6 == PutIfPresent(s5, n.Offset)
        s7 == PutIfPresent(s6, n.Limit)
    IN s7.nodes

SelectStmtNodeGetChildren(n) ==
    LET size == Len(n.Column) + Len(n.Group) + Len(n.Order) + Present(n.Table)
                + Present(n.Where) + Present(n.Limit) + Present(n.Offset)
        s1 == PutAll(Make(size), n.Column)
        s2 == PutIfPresent(s1, n.Table)
        s3 == PutIfPresent(s2, n.Where)
        s4 == PutAll(s3, n.Group)
        s5 == PutAll(s4, n.Order)
        s6 == PutIfPresent(s5, n.Limit)
        s7 == PutIfPresent(s6, n.Offset)
    IN s7.nodes

\* GetChildren, dispatched on the variant as the Node interface does.
GetChildren(n) ==
    CASE n.kind \in LeafKinds -> <<>>
      [] n.kind \in UnaryKinds -> <<n.Target>>
      [] n.kind \in BinaryKinds -> <<n.Object, n.Subject>>
      [] n.kind = "LikeOperatorNode" -> LikeOperatorNodeGetChildren(n)
      [] n.kind = "CastOperatorNode" -> <<n.SourceExpr, n.TargetType>>
      [] n.kind = "InOperatorNode" ->
            PutAll(Put(Make(1 + Len(n.Right)), n.Left), n.Right).nodes
      [] n.kind = "FunctionOperatorNode" ->
            PutAll(Put(Make(1 + Len(n.Args)), n.Name), n.Args).nodes
      [] n.kind = "SelectStmtNode" -> SelectStmtNodeGetChildren(n)

\* ------------------------------------------------------------------------
\* Specification of the tree queries: the analyzer holds an expression or a
\* SELECT statement built by the parser and asks for IsConstant or
\* GetChildren.
\* ------------------------------------------------------------------------

SeqsUpTo(S, n) == UNION {[1..k -> S] : k \in 0..n}

ExprLeaves == {Leaf(k) : k \in LeafKinds}

\* The operator nodes whose operands are taken from S.
ExprsOver(S) ==
    {Unary(k, t) : k \in UnaryKinds, t \in S}
    \cup {Binary(k, o, s) : k \in BinaryKinds, o \in S, s \in S}
    \cup {Like(o, s, e) : o \in S, s \in S, e \in S \cup {Nil}}
    \cup {Cast(t, Node("BoolTypeNode", FALSE, 0, 0)) : t \in S}
    \cup {In(l, r) : l \in S, r \in SeqsUpTo(S, MaxListLen)}
    \cup {Function(Leaf("IdentifierNode"), a) : a \in SeqsUpTo(S, MaxListLen)}

\* Operands of the second level: a literal, an identifier, and constant and
\* non-constant operators of each shape.
NestedOperands ==
    LET lit == Leaf("IntegerValueNode")
        id == Leaf("IdentifierNode")
    IN {lit, id,
        Unary("NegOperatorNode", lit),
        Binary("AddOperatorNode", lit, id),
        Like(lit, lit, id),
        Cast(lit, Node("BoolTypeNode", FALSE, 0, 0)),
        In(lit, <<lit>>),
        Function(id, <<lit>>)}

Exprs == ExprLeaves \cup ExprsOver(ExprLeaves) \cup ExprsOver(NestedOperands)

Select(column, table, where, group, order, limit, offset) ==
    [kind |-> "SelectStmtNode", Column |-> column, Table |-> table,
     Where |-> where, Group |-> group, Order |-> order, Limit |-> limit,
     Offset |-> offset]

WhereOption == [kind |-> "WhereOptionNode", Condition |-> Leaf("BoolValueNode")]
GroupOptions ==
    {[kind |-> "GroupOptionNode", Expr |-> e] :
        e \in {Leaf("IdentifierNode"), Leaf("IntegerValueNode")}}
OrderOptions ==
    {[kind |-> "OrderOptionNode", Expr |-> Leaf("IdentifierNode"), Desc |-> d,
      NullsFirst |-> FALSE] : d \in BOOLEAN}
LimitOption == [kind |-> "LimitOptionNode", Value |-> Leaf("IntegerValueNode")]
OffsetOption == [kind |-> "OffsetOptionNode", Value |-> Leaf("IntegerValueNode")]
Columns == {Leaf("AnyValueNode"), Leaf("IdentifierNode")}

Selects ==
    {Select(c, t, w, g, o, l, f) :
        c \in SeqsUpTo(Columns, MaxListLen),
        t \in {Nil, Leaf("IdentifierNode")},
        w \in {Nil, WhereOption},
        g \in SeqsUpTo(GroupOptions, MaxListLen),
        o \in SeqsUpTo(OrderOptions, MaxListLen),
        l \in {Nil, LimitOption},
        f \in {Nil, OffsetOption}}

InitTree ==
    /\ op = "init"
    /\ \/ \E e \in Exprs : args = [kind |-> "expr", node |-> e]
       \/ \E s \in Selects : args = [kind |-> "stmt", node |-> s]
    /\ res = [none |-> TRUE]
    /\ buf = NoBuf
    /\ enc = NoEnc

\* b := n.IsConstant()
IsConstantCall ==
    /\ op = "init" /\ args.kind = "expr"
    /\ op' = "IsConstant"
    /\ res' = [b |-> IsConstant(args.node)]
    /\ UNCHANGED <<args, buf, enc>>

\* nodes := n.GetChildren()
GetChildrenCall ==
    /\ op = "init" /\ args.kind \in {"expr", "stmt"}
    /\ op' = "GetChildren"
    /\ res' = [nodes |-> GetChildren(args.node)]
    /\ UNCHANGED <<args, buf, enc>>

NextTree == IsConstantCall \/ GetChildrenCall

SpecTree == InitTree /\ [][NextTree]_vars

\* C16: literals (bool, integer, decimal, bytes, DEFAULT, NULL) are constant;
\* identifiers, * and function calls are never constant; a unary operator or
\* CAST is constant iff its operand is; a binary operator iff both operands
\* are; IN iff the left operand and every alternative are; LIKE iff object,
\* subject and, when present, the ESCAPE expression are.
IsConstantStructural ==
    op = "IsConstant" =>
        LET n == args.node
        IN /\ n.kind \in ValueKinds => res.b
           /\ n.kind \in {"IdentifierNode", "AnyValueNode",
                          "FunctionOperatorNode"} => ~res.b
           /\ n.kind \in UnaryKinds => (res.b <=> IsConstant(n.Target))
           /\ n.kind = "CastOperatorNode" => (res.b <=> IsConstant(n.SourceExpr))
           /\ n.kind \in BinaryKinds =>
                 (res.b <=> IsConstant(n.Object) /\ IsConstant(n.Subject))
           /\ n.kind = "InOperatorNode" =>
                 (res.b <=> /\ IsConstant(n.Left)
                            /\ \A i \in 1..Len(n.Right) : IsConstant(n.Right[i]))
           /\ n.kind = "LikeOperatorNode" =>
                 (res.b <=> /\ IsConstant(n.Object)
                            /\ IsConstant(n.Subject)
                            /\ n.Escape = Nil \/ IsConstant(n.Escape))

\* LIKE with constant object and subject and an identifier as ESCAPE is not
\* constant.
IsConstantStructuralWitness ==
    /\ op = "IsConstant"
    /\ args.node = Like(Leaf("IntegerValueNode"), Leaf("BytesValueNode"),
                        Leaf("IdentifierNode"))
    /\ ~res.b

Optional(x) == IF x = Nil THEN <<>> ELSE <<x>>

\* C17: GetChildren of a SELECT returns exactly the present parts in the order
\* columns, table, where, group items, order items, limit, offset, with no
\* placeholder for an absent part; GetChildren of a LIKE returns
\* [object, subject] without ESCAPE and [object, subject, escape] with it.
ChildEnumeration ==
    op = "GetChildren" =>
        LET n == args.node
        IN /\ n.kind = "SelectStmtNode" =>
                /\ res.nodes = n.Column \o Optional(n.Table) \o Optional(n.Where)
                                  \o n.Group \o n.Order \o Optional(n.Limit)
                                  \o Optional(n.Offset)
                /\ Len(res.nodes) =
                      Len(n.Column) + Len(n.Group) + Len(n.Order)
                      + Cardinality({p \in {"Table", "Where", "Limit", "Offset"} :
                                        n[p] # Nil})
                /\ \A i \in 1..Len(res.nodes) : res.nodes[i] # Nil
           /\ n.kind = "LikeOperatorNode" =>
                IF n.Escape = Nil
                THEN res.nodes = <<n.Object, n.Subject>>
                ELSE res.nodes = <<n.Object, n.Subject, n.Escape>>

\* SELECT * FROM t LIMIT n OFFSET m: no where, group or order.
ChildEnumerationWitness ==
    /\ op = "GetChildren"
    /\ args.node = Select(<<Leaf("AnyValueNode")>>, Leaf("IdentifierNode"), Nil,
                          <<>>, <<>>, LimitOption, OffsetOption)
    /\ res.nodes = <<Leaf("AnyValueNode"), Leaf("IdentifierNode"), LimitOption,
                     OffsetOption>>

\* ------------------------------------------------------------------------
\* The type of an expression node: GetType and SetType of the variants that
\* embed TaggedExprNodeBase or UntaggedExprNodeBase.
\* ------------------------------------------------------------------------

\* The variants that embed TaggedExprNodeBase; every other expression variant
\* embeds UntaggedExprNodeBase.
TaggedKinds ==
    {"IdentifierNode", "IntegerValueNode", "DecimalValueNode", "BytesValueNode",
     "NullValueNode", "PosOperatorNode", "NegOperatorNode", "ParenOperatorNode",
     "AddOperatorNode", "SubOperatorNode", "MulOperatorNode", "DivOperatorNode",
     "ModOperatorNode", "FunctionOperatorNode"}

UntaggedKinds ==
    {"BoolValueNode", "AnyValueNode", "DefaultValueNode", "NotOperatorNode",
     "AndOperatorNode", "OrOperatorNode", "GreaterOrEqualOperatorNode",
     "LessOrEqualOperatorNode", "NotEqualOperatorNode", "EqualOperatorNode",
     "GreaterOperatorNode", "LessOperatorNode", "ConcatOperatorNode",
     "IsOperatorNode", "LikeOperatorNode", "CastOperatorNode", "InOperatorNode"}

\* A node as far as its type is concerned: the Type field of
\* TaggedExprNodeBase, the TargetType of a CAST.
Tagged(kind, type) == [kind |-> kind, Type |-> type]
Untagged(kind) == [kind |-> kind]
CastTo(target) == [kind |-> "CastOperatorNode", TargetType |-> target]

TaggedExprNodeBaseGetType(n) == n.Type

\* The node after the call, or the panic.
TaggedExprNodeBaseSetType(n, t) ==
    [panic |-> FALSE, node |-> [n EXCEPT !.Type = t]]

\* UntaggedExprNodeBase.SetType returning without a panic.
UntaggedExprNodeBaseSetTypeIgnored(n, t) == [panic |-> FALSE, node |-> n]

UntaggedExprNodeBaseSetType(n, t) == [panic |-> TRUE, node |-> n]

CastOperatorNodeGetType(n) ==
    IF TypeNodeGetType(n.TargetType).code = "ErrorCodeNil"
    THEN TypeNodeGetType(n.TargetType).dt
    ELSE DataTypeUnknown

\* GetType and SetType, dispatched on the variant as the ExprNode interface
\* does.
ExprGetType(n) ==
    CASE n.kind \in TaggedKinds -> TaggedExprNodeBaseGetType(n)
      [] n.kind = "AnyValueNode" ->
            ComposeDataType(DataTypeMajorSpecial, DataTypeMinorSpecialAny)
      [] n.kind = "DefaultValueNode" ->
            ComposeDataType(DataTypeMajorSpecial, DataTypeMinorSpecialDefault)
      [] n.kind = "ConcatOperatorNode" ->
            ComposeDataType(DataTypeMajorDynamicBytes, DataTypeMinorDontCare)
      [] n.kind = "CastOperatorNode" -> CastOperatorNodeGetType(n)
      [] OTHER -> ComposeDataType(DataTypeMajorBool, DataTypeMinorDontCare)

ExprSetType(n, t) ==
    IF n.kind \in TaggedKinds THEN TaggedExprNodeBaseSetType(n, t)
    ELSE UntaggedExprNodeBaseSetType(n, t)

\* ------------------------------------------------------------------------
\* Specification of the type lifecycle: the analyzer holds a freshly
\* constructed expression node and calls SetType and GetType on it in any
\* order.  A panic of SetType is recovered by the caller, which still holds
\* the node.
\* ------------------------------------------------------------------------

\* Target types of CAST: bool, uint8, and the invalid int7.
CastTargets ==
    {Node("BoolTypeNode", FALSE, 0, 0), Node("IntTypeNode", TRUE, 8, 0),
     Node("IntTypeNode", FALSE, 7, 0)}

\* Freshly constructed nodes: Type has the zero value.
FreshExprs ==
    {Tagged(k, 0) : k \in TaggedKinds}
    \cup {Untagged(k) : k \in UntaggedKinds \ {"CastOperatorNode"}}
    \cup {CastTo(t) : t \in CastTargets}

\* Types the analysis assigns.
AssignedTypes ==
    {ComposeDataType(DataTypeMajorBool, DataTypeMinorDontCare),
     ComposeDataType(DataTypeMajorUint, 31),
     DataTypeBad}

\* args.node is the node held; args.sets lists the types passed to the
\* SetType calls that returned.
InitExprType ==
    /\ op = "init"
    /\ \E n \in FreshExprs :
          args = [kind |-> "typed", node |-> n, fresh |-> n, sets |-> <<>>,
                  calls |-> 0]
    /\ res = [none |-> TRUE]
    /\ buf = NoBuf
    /\ enc = NoEnc

\* n.SetType(t)
SetTypeCall ==
    /\ args.kind = "typed"
    /\ args.calls < MaxSetTypeCalls
    /\ \E t \in AssignedTypes :
          LET r == ExprSetType(args.node, t)
          IN /\ op' = "SetType"
             /\ args' = [args EXCEPT !.node = r.node,
                                     !.sets = IF r.panic THEN @ ELSE Append(@, t),
                                     !.calls = @ + 1]
             /\ res' = [panic |-> r.panic, t |-> t]
    /\ UNCHANGED <<buf, enc>>

\* dt := n.GetType()
ExprGetTypeCall ==
    /\ args.kind = "typed"
    /\ op # "GetType"
    /\ op' = "GetType"
    /\ res' = [panic |-> FALSE, dt |-> ExprGetType(args.node)]
    /\ UNCHANGED <<args, buf, enc>>

NextExprType == SetTypeCall \/ ExprGetTypeCall

SpecExprType == InitExprType /\ [][NextExprType]_vars

BoolProducingKinds ==
    {"AndOperatorNode", "OrOperatorNode", "GreaterOrEqualOperatorNode",
     "LessOrEqualOperatorNode", "NotEqualOperatorNode", "EqualOperatorNode",
     "GreaterOperatorNode", "LessOperatorNode", "IsOperatorNode",
     "LikeOperatorNode", "InOperatorNode"}

ArithmeticKinds ==
    {"AddOperatorNode", "SubOperatorNode", "MulOperatorNode", "DivOperatorNode",
     "ModOperatorNode"}

\* The classification as claimed: CAST among the tagged variants.
ClaimedUntaggedKinds ==
    BoolProducingKinds
    \cup {"ConcatOperatorNode", "NotOperatorNode", "AnyValueNode",
          "DefaultValueNode", "BoolValueNode"}

ClaimedTaggedKinds ==
    ArithmeticKinds
    \cup {"IdentifierNode", "CastOperatorNode", "FunctionOperatorNode",
          "ParenOperatorNode", "PosOperatorNode", "NegOperatorNode",
          "NullValueNode"}

\* The type an untagged variant is fixed to.
FixedTypeOf(n) ==
    CASE n.kind \in BoolProducingKinds \cup {"NotOperatorNode", "BoolValueNode"} ->
            ComposeDataType(DataTypeMajorBool, DataTypeMinorDontCare)
      [] n.kind = "ConcatOperatorNode" ->
            ComposeDataType(DataTypeMajorDynamicBytes, DataTypeMinorDontCare)
      [] n.kind = "AnyValueNode" ->
            ComposeDataType(DataTypeMajorSpecial, DataTypeMinorSpecialAny)
      [] n.kind = "DefaultValueNode" ->
            ComposeDataType(DataTypeMajorSpecial, DataTypeMinorSpecialDefault)
      [] n.kind = "CastOperatorNode" ->
            IF TypeNodeGetType(n.TargetType).code = "ErrorCodeNil"
            THEN TypeNodeGetType(n.TargetType).dt
            ELSE DataTypeUnknown

Last(s) == s[Len(s)]

UntaggedBehaviour(kinds) ==
    args.node.kind \in kinds =>
        /\ op = "SetType" => res.panic
        /\ op = "GetType" => res.dt = FixedTypeOf(args.node)
        /\ args.node = args.fresh

TaggedBehaviour(kinds) ==
    args.node.kind \in kinds =>
        /\ op = "SetType" => ~res.panic /\ args.node.Type = res.t
        /\ (op = "GetType" /\ args.sets # <<>>) => res.dt = Last(args.sets)

\* C18 as stated: on the boolean-producing operators, concatenation, NOT, *,
\* DEFAULT and the bool literal SetType always panics and GetType returns the
\* variant's fixed type; on numeric arithmetic, identifiers, CAST, function
\* calls, parenthesization, unary +/- and NULL SetType(t) is accepted and a
\* following GetType returns t.
ClassificationAsClaimed ==
    /\ UntaggedBehaviour(ClaimedUntaggedKinds)
    /\ TaggedBehaviour(ClaimedTaggedKinds)

\* C18, amended: CAST is untagged as well - SetType panics on it and GetType
\* returns the DataType its target type resolves to (the unknown sentinel for
\* an invalid target type); the other variants behave as stated.
ClassificationWithCastUntagged ==
    /\ UntaggedBehaviour(ClaimedUntaggedKinds \cup {"CastOperatorNode"})
    /\ TaggedBehaviour(ClaimedTaggedKinds \ {"CastOperatorNode"})

\* SetType on CAST(... AS uint8) panics and GetType still returns uint8.
ClassificationWitness ==
    /\ op = "GetType"
    /\ args.node = CastTo(Node("IntTypeNode", TRUE, 8, 0))
    /\ args.calls = 1
    /\ args.sets = <<>>
    /\ res.dt = ComposeDataType(DataTypeMajorUint, 0)

\* C19: a freshly constructed tagged node reports the Pending type, and over
\* any sequence of SetType and GetType calls the type is set exactly once:
\* after the first SetType(t) every later GetType returns t and the stored
\* type never changes again.
TypeSetExactlyOnce ==
    args.node.kind \in TaggedKinds =>
        /\ (op = "GetType" /\ args.sets = <<>>) => res.dt = DataTypePending
        /\ args.sets # <<>> => args.node.Type = args.sets[1]
        /\ (op = "GetType" /\ args.sets # <<>>) => res.dt = args.sets[1]

\* SetType(bool); SetType(uint256); GetType returns uint256.
TypeOverwritten ==
    /\ op = "GetType"
    /\ args.fresh = Tagged("IdentifierNode", 0)
    /\ args.sets = <<ComposeDataType(DataTypeMajorBool, DataTypeMinorDontCare),
                     ComposeDataType(DataTypeMajorUint, 31)>>
    /\ res.dt = ComposeDataType(DataTypeMajorUint, 31)

\* ------------------------------------------------------------------------
\* NodeBase: Position and Length, both uint32.  A uint32 is held as its two
\* 16-bit halves, so that sums and differences wrap at 2^32.
\* ------------------------------------------------------------------------

Word(hi, lo) == [hi |-> hi, lo |-> lo]

Zero32 == Word(0, 0)
MaxUint32 == Word(65535, 65535)

\* a + b and a - b in uint32.
Add32(a, b) ==
    LET lo == a.lo + b.lo
        hi == a.hi + b.hi + (lo \div 65536)
    IN Word(hi % 65536, lo % 65536)

Sub32(a, b) ==
    LET lo == a.lo - b.lo
        hi == a.hi - b.hi - (IF lo < 0 THEN 1 ELSE 0)
    IN Word((hi + 65536) % 65536, (lo + 65536) % 65536)

NodeBase(position, length) == [Position |-> position, Length |-> length]

HasPosition(n) == n.Length # Zero32
GetPosition(n) == n.Position
SetPosition(n, position) == [n EXCEPT !.Position = position]
GetLength(n) == n.Length
SetLength(n, length) == [n EXCEPT !.Length = length]

\* UpdatePosition storing end as the length.
UpdatePositionLengthIsEnd(nodes, dest, srcLeft, srcRight) ==
    LET begin == GetPosition(nodes[srcLeft])
        end == Add32(GetPosition(nodes[srcRight]), GetLength(nodes[srcRight]))
        n1 == [nodes EXCEPT ![dest] = SetPosition(@, begin)]
    IN [n1 EXCEPT ![dest] = SetLength(@, end)]

\* UpdatePosition on the nodes dest, srcLeft and srcRight refer to; nodes maps
\* each reference to the NodeBase it points to, and two arguments may be the
\* same reference.
UpdatePosition(nodes, dest, srcLeft, srcRight) ==
    LET begin == GetPosition(nodes[srcLeft])
        end == Add32(GetPosition(nodes[srcRight]), GetLength(nodes[srcRight]))
        n1 == [nodes EXCEPT ![dest] = SetPosition(@, begin)]
    IN [n1 EXCEPT ![dest] = SetLength(@, Sub32(end, begin))]

\* ------------------------------------------------------------------------
\* Specification of the span combination: the parser holds up to three nodes
\* and calls UpdatePosition with references to them, then asks the
\* destination whether it has a position.
\* ------------------------------------------------------------------------

Uint32Samples == {Zero32, Word(0, 1), Word(0, 7), Word(32768, 0), MaxUint32}

SourceNodes == {NodeBase(p, l) : p \in Uint32Samples, l \in Uint32Samples}

\* A destination the parser has not positioned yet, and one it has.
DestNodes == {NodeBase(Zero32, Zero32), NodeBase(Word(0, 3), Word(0, 2))}

\* dest, srcLeft, srcRight as references: all different, dest = srcLeft,
\* dest = srcRight, srcLeft = srcRight, and all the same.
References ==
    {<<1, 2, 3>>, <<1, 1, 2>>, <<1, 2, 1>>, <<1, 2, 2>>, <<1, 1, 1>>}

InitSpan ==
    /\ op = "init"
    /\ \E refs \in References :
          \E nodes \in [{refs[1], refs[2], refs[3]} -> SourceNodes \cup DestNodes] :
             /\ refs[1] \notin {refs[2], refs[3]} => nodes[refs[1]] \in DestNodes
             /\ nodes[refs[2]] \in SourceNodes
             /\ nodes[refs[3]] \in SourceNodes
             /\ args = [kind |-> "span", nodes |-> nodes, dest |-> refs[1],
                        srcLeft |-> refs[2], srcRight |-> refs[3]]
    /\ res = [none |-> TRUE]
    /\ buf = NoBuf
    /\ enc = NoEnc

\* UpdatePosition(dest, srcLeft, srcRight); res.nodes are the nodes after the
\* call, args.nodes the nodes before it.
UpdatePositionCall ==
    /\ op = "init" /\ args.kind = "span"
    /\ op' = "UpdatePosition"
    /\ res' = [nodes |-> UpdatePosition(args.nodes, args.dest, args.srcLeft,
                                        args.srcRight)]
    /\ UNCHANGED <<args, buf, enc>>

\* dest.HasPosition() after the update.
HasPositionCall ==
    /\ op = "UpdatePosition"
    /\ op' = "HasPosition"
    /\ res' = [nodes |-> res.nodes, b |-> HasPosition(res.nodes[args.dest])]
    /\ UNCHANGED <<args, buf, enc>>

NextSpan == UpdatePositionCall \/ HasPositionCall

SpecSpan == InitSpan /\ [][NextSpan]_vars

\* position + length as a number (no wrap), and the order of such numbers.
End(n) ==
    LET lo == n.Position.lo + n.Length.lo
    IN Word(n.Position.hi + n.Length.hi + (lo \div 65536), lo % 65536)

Leq(a, b) == a.hi < b.hi \/ (a.hi = b.hi /\ a.lo <= b.lo)

\* The span of a covers the span of b.
Covers(a, b) == Leq(a.Position, b.Position) /\ Leq(End(b), End(a))

\* C20 as stated: after UpdatePosition, dest's offset is srcLeft's offset and
\* dest's offset + length is srcRight's offset + length in uint32; dest's span
\* covers the spans of both sources and HasPosition(dest) holds; the offsets
\* and lengths of srcLeft and srcRight are unchanged, also when dest is one of
\* them.
SpanCombination ==
    op \in {"UpdatePosition", "HasPosition"} =>
        LET pre == args.nodes
            post == res.nodes
            d == args.dest
            l == args.srcLeft
            r == args.srcRight
        IN /\ post[d].Position = pre[l].Position
           /\ Add32(post[d].Position, post[d].Length)
                 = Add32(pre[r].Position, pre[r].Length)
           /\ Covers(post[d], pre[l]) /\ Covers(post[d], pre[r])
           /\ HasPosition(post[d])
           /\ op = "HasPosition" => res.b
           /\ post[l] = pre[l] /\ post[r] = pre[r]

\* The sources have positions, srcLeft starts and ends no later than
\* srcRight, and srcRight's end does not wrap.
OrderedSources(pre, l, r) ==
    /\ HasPosition(pre[l]) /\ HasPosition(pre[r])
    /\ Leq(pre[l].Position, pre[r].Position)
    /\ Leq(End(pre[l]), End(pre[r]))
    /\ End(pre[r]).hi <= 65535

\* C20, amended: dest's offset is srcLeft's offset and dest's offset + length
\* is srcRight's offset + length in uint32 (the values before the call);
\* HasPosition(dest) holds iff these two differ; when the sources have
\* positions and srcLeft starts and ends no later than srcRight without
\* wrapping, dest's span covers both and HasPosition(dest) holds; every node
\* other than dest is unchanged, and a source that is dest takes the combined
\* span.
SpanCombinationOrdered ==
    op \in {"UpdatePosition", "HasPosition"} =>
        LET pre == args.nodes
            post == res.nodes
            d == args.dest
            l == args.srcLeft
            r == args.srcRight
        IN /\ post[d].Position = pre[l].Position
           /\ Add32(post[d].Position, post[d].Length)
                 = Add32(pre[r].Position, pre[r].Length)
           /\ HasPosition(post[d]) <=>
                 Add32(pre[r].Position, pre[r].Length) # pre[l].Position
           /\ op = "HasPosition" => (res.b <=> HasPosition(post[d]))
           /\ OrderedSources(pre, l, r) =>
                 /\ Covers(post[d], pre[l]) /\ Covers(post[d], pre[r])
                 /\ HasPosition(post[d])
           /\ \A i \in DOMAIN pre \ {d} : post[i] = pre[i]

\* dest is srcLeft = (1, 7), srcRight = (7, 1): dest becomes (1, 7) .. 8, and
\* HasPosition holds.
SpanCombinationWitness ==
    /\ op = "HasPosition"
    /\ args.dest = args.srcLeft
    /\ args.dest # args.srcRight
    /\ args.nodes[args.srcLeft] = NodeBase(Word(0, 1), Word(0, 1))
    /\ args.nodes[args.srcRight] = NodeBase(Word(0, 7), Word(0, 1))
    /\ res.nodes[args.dest] = NodeBase(Word(0, 1), Word(0, 7))
    /\ res.b

\* ------------------------------------------------------------------------
\* The construction of negative encodings
\* ------------------------------------------------------------------------

\* The big-endian bytes of the magnitude n >= 0, right-aligned in w zero bytes.
RightAligned(n, w) == Zeros(w - Len(BigBytes(n))) \o BigBytes(n)

\* A negative value of a signed type whose scaled value is an integer within
\* the width of the type.
NegativeCase(dt, d) ==
    /\ IsSignedMajor(DecomposeDataType(dt).major)
    /\ d.value < 0
    /\ ScaledIsInteger(dt, d)
    /\ ScaledInRange(dt, d, WidthOf(dt), TRUE)

\* C21 as stated: for every negative value v that fits the width, the bytes
\* DecimalEncode returns are the magnitude |v| right-aligned in the zeroed
\* buffer, plus one, with every byte complemented, and they are the
\* two's-complement representation of v at that width.
NegativeEncodingMagnitudePlusOne ==
    (op = "DecimalEncode" /\ NegativeCase(args.dt, args.d)) =>
        /\ res.st = "ok"
        /\ res.bs = Complement(RightAligned(
                        Abs(ScaledTrunc(args.dt, args.d)) + 1, WidthOf(args.dt)))
        /\ res.bs = TwosComplement(ScaledTrunc(args.dt, args.d), WidthOf(args.dt))

\* C21, amended: for every negative value v that fits the width, the bytes
\* DecimalEncode returns are the magnitude of v + 1 (that is |v| - 1)
\* right-aligned in the zeroed buffer with every byte complemented, and they
\* are the two's-complement representation of v at that width.
NegativeEncodingConstruction ==
    (op = "DecimalEncode" /\ NegativeCase(args.dt, args.d)) =>
        /\ res.st = "ok"
        /\ res.bs = Complement(RightAligned(
                        Abs(ScaledTrunc(args.dt, args.d)) - 1, WidthOf(args.dt)))
        /\ res.bs = TwosComplement(ScaledTrunc(args.dt, args.d), WidthOf(args.dt))

\* int16, -129: |v| - 1 = 128 -> [0x00, 0x80] -> [0xFF, 0x7F].
NegativeEncodingConstructionWitness ==
    /\ op = "DecimalEncode"
    /\ args.dt = ComposeDataType(DataTypeMajorInt, 1)
    /\ args.d = Dec(-129, 0)
    /\ NegativeCase(args.dt, args.d)
    /\ RightAligned(128, 2) = <<0, 128>>
    /\ res.bs = <<255, 127>>

\* ------------------------------------------------------------------------
\* The caller's slice across DecimalDecode
\* ------------------------------------------------------------------------

\* C22: for every signed or unsigned numeric DataType and every byte buffer,
\* the buffer holds the same bytes after DecimalDecode as before, and
\* decoding the same buffer twice in a row with the same DataType returns the
\* same value both times.
DecodeLeavesBufferUnchanged ==
    [][(op' = "DecimalDecode"
          /\ IsNumericMajor(DecomposeDataType(args'.dt).major)) =>
            /\ buf'.bs = buf.bs
            /\ (op = "DecimalDecode" /\ res.st = "ok" /\ res'.st = "ok") =>
                  res'.d = res.d]_vars

\* int8, [0xFF]: DecimalDecode returns -1 and leaves [0x00] in the caller's
\* slice.
DecodeComplementsBuffer ==
    /\ op = "DecimalDecode"
    /\ args.dt = ComposeDataType(DataTypeMajorInt, 0)
    /\ args.bs = <<255>>
    /\ res.st = "ok"
    /\ res.d = Dec(-1, 0)
    /\ buf.bs = <<0>>

\* ------------------------------------------------------------------------
\* Truncation of fractional digits by DecimalEncode
\* ------------------------------------------------------------------------

\* d with the fractional digits dt cannot hold cut off: trunc(d * 10^N) / 10^N,
\* N the fractional digits of dt.
TruncDec(dt, d) == Dec(ScaledTrunc(dt, d), -DigitsOf(dt))

\* -1 < d * 10^N < 0
BelowZeroAboveMinusOne(dt, d) == d.value < 0 /\ ScaledTrunc(dt, d) = 0

\* A numeric DataType and a value whose truncation fits the width.
TruncCase(dt, d) ==
    /\ IsNumericMajor(DecomposeDataType(dt).major)
    /\ ScaledInRange(dt, TruncDec(dt, d), WidthOf(dt),
                     IsSignedMajor(DecomposeDataType(dt).major))

\* C23: for every Int/Uint type (and Fixed/Ufixed after scaling by 10^N) and
\* every value v whose truncation toward zero fits the width,
\* DecimalEncode(dt, v) equals DecimalEncode(dt, trunc(v)); every v with
\* -1 < v < 0 encodes as all-zero bytes and decodes to 0.
EncodeTruncatesTowardZero ==
    /\ (op = "DecimalEncode" /\ TruncCase(args.dt, args.d)) =>
          /\ res = DecimalEncode(args.dt, TruncDec(args.dt, args.d))
          /\ BelowZeroAboveMinusOne(args.dt, args.d) =>
                res.st = "ok" /\ res.bs = Zeros(WidthOf(args.dt))
    /\ (op = "DecimalDecode" /\ args.enc.valid
          /\ TruncCase(args.dt, args.enc.d)
          /\ BelowZeroAboveMinusOne(args.dt, args.enc.d)) =>
          res.st = "ok" /\ DecEqual(res.d, Dec(0, 0))

\* int8, -0.1: Rescale(0) gives 0, b.Add(b, bigIntOne) gives 1, the bytes are
\* [0xFE], which DecimalDecode reads as -2.
EncodeNegativeFractionAsMinusTwo ==
    /\ op = "DecimalDecode"
    /\ args.enc.valid
    /\ args.dt = ComposeDataType(DataTypeMajorInt, 0)
    /\ args.enc.d = Dec(-1, -1)
    /\ args.bs = <<254>>
    /\ res.st = "ok"
    /\ res.d = Dec(-2, 0)

====
